---- MODULE Spec2Model ----
(***************************************************************************)
(* CPUsim: the extended (EAX..ESP) two-pass assembler of src/assembler.c   *)
(* (second translation unit, lines 318-725) and the extended binary        *)
(* simulator of src/unnamed/part_000.                                      *)
(*                                                                         *)
(* A C string is a sequence of one-character strings; a source file is a   *)
(* sequence of lines (each line without its terminating newline).          *)
(***************************************************************************)
EXTENDS Integers, Sequences, FiniteSets, TLC

VARIABLES
    source,              \* the source file: [readable, lines]
    program_memory,      \* assembler.c:343, rows 0..program_line_count-1
    program_line_count,  \* assembler.c:345
    symbol_table,        \* assembler.c:344, entries 0..label_count-1
    label_count,         \* assembler.c:346
    asm_code,            \* main's machine_code[] (assembler.c:361), written prefix
    instruction_count,   \* main's instruction_count (assembler.c:362)
    out_file,            \* the file at the output path: [exists, words]
    exit_code,           \* main's return value (-1 while main runs)
    asm_pc,              \* where main (assembler.c:358-405) stands
    asm_stderr,          \* the assembler's diagnostics, in order (tags)
    registers,           \* part_000:30, indexed 0..7 (EAX..ESP)
    flags,               \* part_000:31
    memory,              \* part_000:33
    machine_code,        \* part_000:34, words 0..program_instruction_count-1
    program_instruction_count, \* part_000:35
    pc,                  \* run_program's pc (part_000:86)
    sim_state,           \* "Running", "Halted" (HLT), "Faulted", "Finished", "Crashed"
    last,                \* the instruction executed last: [valid, pc, word]
    stdin,               \* console input not yet read: a sequence of lines
    sim_exit,            \* the simulator's exit code (-1 while it runs)
    console              \* values printed by OUT, in order

asm_vars == <<source, program_memory, program_line_count, symbol_table,
              label_count, asm_code, instruction_count, out_file, exit_code, asm_pc,
              asm_stderr>>
sim_vars == <<registers, flags, memory, machine_code, program_instruction_count,
              pc, sim_state, last, stdin, sim_exit, console>>
vars == <<asm_vars, sim_vars>>


----------------------------------------------------------------------------
(* Program constants *)

PROGRAM_SIZE == 256
MAX_LINE_LENGTH == 100
MAX_LABELS == 64
MAX_LABEL_LENGTH == 32
MEMORY_SIZE == 256
ERROR_SENTINEL == 65535

----------------------------------------------------------------------------
(* <ctype.h>, <string.h>, <stdlib.h> on sequences of characters *)

LowerCase == <<"a","b","c","d","e","f","g","h","i","j","k","l","m",
               "n","o","p","q","r","s","t","u","v","w","x","y","z">>
UpperCase == <<"A","B","C","D","E","F","G","H","I","J","K","L","M",
               "N","O","P","Q","R","S","T","U","V","W","X","Y","Z">>
DigitChars == <<"0","1","2","3","4","5","6","7","8","9">>

Range(f) == {f[i] : i \in DOMAIN f}

isspace(c) == c \in {" ", "\t", "\n", "\r", "\f"}
isalpha(c) == c \in Range(LowerCase) \cup Range(UpperCase)
isdigit(c) == c \in Range(DigitChars)
DigitVal(c) == (CHOOSE i \in 1..10 : DigitChars[i] = c) - 1
toupper(c) == IF c \in Range(LowerCase)
              THEN UpperCase[CHOOSE i \in 1..26 : LowerCase[i] = c]
              ELSE c

StrUpper(s) == [i \in 1..Len(s) |-> toupper(s[i])]

\* First character of a C string, "\0" (written NUL) for the empty string.
NUL == "NUL"
CharAt(s, i) == IF i <= Len(s) THEN s[i] ELSE NUL

Take(s, n) == SubSeq(s, 1, IF n < Len(s) THEN n ELSE Len(s))
Drop(s, n) == SubSeq(s, n + 1, Len(s))

\* strchr / strcspn: index (1-based) of the first character of s in cs, or 0.
FirstIn(s, cs) == IF \E i \in 1..Len(s) : s[i] \in cs
                  THEN CHOOSE i \in 1..Len(s) :
                          s[i] \in cs /\ \A j \in 1..(i-1) : s[j] \notin cs
                  ELSE 0
strchr(s, c) == FirstIn(s, {c})

\* s with its leading white space removed (the isspace loops).
RECURSIVE SkipSpace(_)
SkipSpace(s) == IF Len(s) > 0 /\ isspace(s[1]) THEN SkipSpace(Tail(s)) ELSE s

\* s cut before the first character in cs.
CutAt(s, cs) == IF FirstIn(s, cs) = 0 THEN s ELSE SubSeq(s, 1, FirstIn(s, cs) - 1)

\* atoi: optional white space, optional sign, then the longest run of digits.
RECURSIVE DigitsValue(_, _)
DigitsValue(s, acc) ==
    IF Len(s) > 0 /\ isdigit(s[1])
    THEN DigitsValue(Tail(s), 10 * acc + DigitVal(s[1]))
    ELSE acc
atoi(str) ==
    LET s == SkipSpace(str) IN
    IF CharAt(s, 1) = "-" THEN 0 - DigitsValue(Tail(s), 0)
    ELSE IF CharAt(s, 1) = "+" THEN DigitsValue(Tail(s), 0)
    ELSE DigitsValue(s, 0)

\* strtok(line, " \t,") called until NULL or four tokens are found.
Delims == {" ", "\t", ","}
RECURSIVE Tokens(_, _)
Tokens(s, max) ==
    LET t == IF FirstIn(s, Delims) = 1 THEN <<>> ELSE CutAt(s, Delims) IN
    IF max = 0 \/ Len(s) = 0 THEN <<>>
    ELSE IF Len(t) = 0 THEN Tokens(Tail(s), max)
    ELSE <<t>> \o Tokens(Drop(s, Len(t) + 1), max - 1)

----------------------------------------------------------------------------
(* Bit operations on non-negative integers *)

RECURSIVE BitOr(_, _)
BitOr(a, b) ==
    IF a = 0 THEN b
    ELSE IF b = 0 THEN a
    ELSE (IF a % 2 = 1 \/ b % 2 = 1 THEN 1 ELSE 0) + 2 * BitOr(a \div 2, b \div 2)

RECURSIVE BitAnd(_, _)
BitAnd(a, b) ==
    IF a = 0 \/ b = 0 THEN 0
    ELSE (IF a % 2 = 1 /\ b % 2 = 1 THEN 1 ELSE 0) + 2 * BitAnd(a \div 2, b \div 2)

Shl(a, k) == a * (2 ^ k)
Shr(a, k) == a \div (2 ^ k)
U16(x) == x % 65536

----------------------------------------------------------------------------
(* Extended assembler: src/assembler.c lines 318-725 *)

Mn == [ HLT |-> <<"H","L","T">>, RET |-> <<"R","E","T">>,
        INP |-> <<"I","N","P">>, OUT |-> <<"O","U","T">>,
        INC |-> <<"I","N","C">>, DEC |-> <<"D","E","C">>,
        NOT |-> <<"N","O","T">>, PUSH |-> <<"P","U","S","H">>,
        POP |-> <<"P","O","P">>, JMP |-> <<"J","M","P">>,
        JE |-> <<"J","E">>, JZ |-> <<"J","Z">>,
        JNE |-> <<"J","N","E">>, JNZ |-> <<"J","N","Z">>,
        JG |-> <<"J","G">>, JNLE |-> <<"J","N","L","E">>,
        JL |-> <<"J","L">>, JNGE |-> <<"J","N","G","E">>,
        JGE |-> <<"J","G","E">>, JNL |-> <<"J","N","L">>,
        JLE |-> <<"J","L","E">>, JNG |-> <<"J","N","G">>,
        CALL |-> <<"C","A","L","L">>,
        ADD |-> <<"A","D","D">>, SUB |-> <<"S","U","B">>,
        CMP |-> <<"C","M","P">>, MUL |-> <<"M","U","L">>,
        DIV |-> <<"D","I","V">>, XOR |-> <<"X","O","R">>,
        MOV |-> <<"M","O","V">> ]

AsmRegNames == << <<"E","A","X">>, <<"E","B","X">>, <<"E","C","X">>, <<"E","D","X">>,
                  <<"E","S","I">>, <<"E","D","I">>, <<"E","B","P">>, <<"E","S","P">> >>

get_register_code(reg_name) ==
    LET upper_name == StrUpper(Take(reg_name, MAX_LABEL_LENGTH - 1)) IN
    IF \E k \in 1..8 : AsmRegNames[k] = upper_name
    THEN (CHOOSE k \in 1..8 : AsmRegNames[k] = upper_name) - 1
    ELSE -1

\* The address of the last entry of the table with this name.
get_address_for_label_Last(name) ==
    IF \E i \in 1..label_count : symbol_table[i].name = name
    THEN symbol_table[CHOOSE i \in 1..label_count :
                         /\ symbol_table[i].name = name
                         /\ \A j \in (i+1)..label_count : symbol_table[j].name # name].address
    ELSE -1

\* The first entry of symbol_table[0..label_count-1] named `name`, or -1.
get_address_for_label(name) ==
    IF \E i \in 1..label_count : symbol_table[i].name = name
    THEN symbol_table[CHOOSE i \in 1..label_count :
                         /\ symbol_table[i].name = name
                         /\ \A j \in 1..(i-1) : symbol_table[j].name # name].address
    ELSE -1

\* value = isalpha(s[0]) ? get_address_for_label(s) : atoi(s)
ResolveAddress(s) ==
    IF isalpha(CharAt(s, 1)) THEN get_address_for_label(s) ELSE atoi(s)

\* What encode_instruction holds when it returns: the returned word and its locals.
Encoded(form, instruction, opcode, reg1, reg2, value, offset) ==
    [ instruction |-> U16(instruction), form |-> form, err |-> "none",
      opcode |-> opcode, reg1 |-> reg1, reg2 |-> reg2, value |-> value, offset |-> offset ]
EncodeError(reason, opcode) ==
    [ instruction |-> ERROR_SENTINEL, form |-> "error", err |-> reason,
      opcode |-> opcode, reg1 |-> 0, reg2 |-> 0, value |-> 0, offset |-> 0 ]

\* assembler.c:554-569: INP OUT INC DEC NOT PUSH POP <reg>
OneRegMnemonics == {Mn.INP, Mn.OUT, Mn.INC, Mn.DEC, Mn.NOT, Mn.PUSH, Mn.POP}
OneRegOpcode(m) ==
    CASE m = Mn.INP -> 4   \* 0b00100
      [] m = Mn.OUT -> 5   \* 0b00101
      [] m = Mn.INC -> 9   \* 0b01001
      [] m = Mn.DEC -> 10  \* 0b01010
      [] m = Mn.PUSH -> 11 \* 0b01011
      [] m = Mn.POP -> 12  \* 0b01100
      [] m = Mn.NOT -> 22  \* 0b10110
\* The register field placed at bit 9, as in the three-register layout.
EncodeOneReg_Bit9(opcode_str, parts) ==
    LET opcode == OneRegOpcode(opcode_str)
        reg1_code == get_register_code(parts[2])
    IN  IF Len(parts) # 2 THEN EncodeError("arity", 0)
        ELSE IF reg1_code = -1 THEN EncodeError("register", opcode)
        ELSE Encoded("R", BitOr(Shl(opcode, 11), Shl(reg1_code, 9)),
                     opcode, reg1_code, 0, 0, 0)
EncodeOneReg(opcode_str, parts) ==
    LET opcode == OneRegOpcode(opcode_str)
        reg1_code == get_register_code(parts[2])
    IN  IF Len(parts) # 2 THEN EncodeError("arity", 0)
        ELSE IF reg1_code = -1 THEN EncodeError("register", opcode)
        ELSE Encoded("R", BitOr(Shl(opcode, 11), Shl(reg1_code, 8)),
                     opcode, reg1_code, 0, 0, 0)

\* assembler.c:572-590: JMP, the conditional jumps and CALL <address|label>
BranchMnemonics == {Mn.JMP, Mn.JE, Mn.JZ, Mn.JNE, Mn.JNZ, Mn.JG, Mn.JNLE, Mn.JL,
                    Mn.JNGE, Mn.JGE, Mn.JNL, Mn.JLE, Mn.JNG, Mn.CALL}
BranchOpcode(m) ==
    CASE m = Mn.JMP -> 24                  \* 0b11000
      [] m \in {Mn.JE, Mn.JZ} -> 25        \* 0b11001
      [] m \in {Mn.JNE, Mn.JNZ} -> 26      \* 0b11010
      [] m \in {Mn.JG, Mn.JNLE} -> 27      \* 0b11011
      [] m \in {Mn.JL, Mn.JNGE} -> 28      \* 0b11100
      [] m \in {Mn.JGE, Mn.JNL} -> 29      \* 0b11101
      [] m \in {Mn.JLE, Mn.JNG} -> 30      \* 0b11110
      [] m = Mn.CALL -> 13                 \* 0b01101
EncodeBranch(opcode_str, parts) ==
    LET opcode == BranchOpcode(opcode_str)
        value == ResolveAddress(parts[2])
    IN  IF Len(parts) # 2 THEN EncodeError("arity", 0)
        ELSE IF value = -1 THEN EncodeError("label", opcode)
        ELSE IF value < 0 \/ value > 255 THEN EncodeError("range", opcode)
        ELSE Encoded("J", BitOr(Shl(opcode, 11), value), opcode, 0, 0, value, 0)

\* assembler.c:593-624: ADD SUB CMP MUL DIV XOR <reg>, <reg|#imm>
AluMnemonics == {Mn.ADD, Mn.SUB, Mn.CMP, Mn.MUL, Mn.DIV, Mn.XOR}
AluImmOpcode(m) ==
    CASE m = Mn.ADD -> 19  \* 0b10011
      [] m = Mn.SUB -> 20  \* 0b10100
      [] m = Mn.CMP -> 21  \* 0b10101
\* MUL and DIV given each other's opcode.
AluRegOpcode_Swapped(m) ==
    CASE m = Mn.ADD -> 16
      [] m = Mn.SUB -> 17
      [] m = Mn.CMP -> 23
      [] m = Mn.MUL -> 2
      [] m = Mn.DIV -> 1
      [] m = Mn.XOR -> 3
AluRegOpcode(m) ==
    CASE m = Mn.ADD -> 16  \* 0b10000
      [] m = Mn.SUB -> 17  \* 0b10001
      [] m = Mn.CMP -> 23  \* 0b10111
      [] m = Mn.MUL -> 1   \* 0b00001
      [] m = Mn.DIV -> 2   \* 0b00010
      [] m = Mn.XOR -> 3   \* 0b00011
EncodeAlu(opcode_str, parts) ==
    IF Len(parts) # 3 THEN EncodeError("arity", 0)
    ELSE LET operand2 == parts[3] IN
      IF CharAt(operand2, 1) = "#"
      THEN IF opcode_str \notin {Mn.ADD, Mn.SUB, Mn.CMP}
           THEN EncodeError("immediate", 0)
           ELSE LET opcode == AluImmOpcode(opcode_str)
                    reg1_code == get_register_code(parts[2])
                    value == atoi(Tail(operand2))
                IN  IF reg1_code = -1 THEN EncodeError("register", opcode)
                    ELSE IF value < 0 \/ value > 255 THEN EncodeError("range", opcode)
                    ELSE Encoded("RI", BitOr(BitOr(Shl(opcode, 11), Shl(reg1_code, 8)), value),
                                 opcode, reg1_code, 0, value, 0)
      ELSE LET opcode == AluRegOpcode(opcode_str)
               reg1_code == get_register_code(parts[2])
               reg2_code == get_register_code(parts[3])
           IN  IF reg1_code = -1 \/ reg2_code = -1 THEN EncodeError("register", opcode)
               ELSE Encoded("RR", BitOr(BitOr(Shl(opcode, 11), Shl(reg1_code, 8)),
                                        Shl(reg2_code, 5)),
                            opcode, reg1_code, reg2_code, 0, 0)

\* assembler.c:634-663: MOV with a bracketed operand that holds a '+'
EncodeMovBaseOffset(dest, src, dest_is_mem) ==
    LET mem_operand == IF dest_is_mem THEN dest ELSE src
        plus == strchr(mem_operand, "+")
        base_reg_str == SubSeq(mem_operand, 2, plus - 1)
        offset == atoi(Drop(mem_operand, plus))
        base_reg_code == get_register_code(base_reg_str)
        opcode == IF dest_is_mem THEN 31 ELSE 15   \* 0b11111, 0b01111
        reg_code == get_register_code(IF dest_is_mem THEN src ELSE dest)
    IN  IF base_reg_code = -1 THEN EncodeError("register", 0)
        ELSE IF offset < 0 \/ offset > 31 THEN EncodeError("range", 0)
        ELSE IF reg_code = -1 THEN EncodeError("register", opcode)
        ELSE Encoded(IF dest_is_mem THEN "MOV_STB" ELSE "MOV_LDB",
                     BitOr(BitOr(BitOr(Shl(opcode, 11), Shl(reg_code, 8)),
                                 Shl(base_reg_code, 5)), offset),
                     opcode, reg_code, base_reg_code, 0, offset)

\* assembler.c:664-671: MOV reg, #imm
EncodeMovImm(dest, src) ==
    LET opcode == 6   \* 0b00110
        reg1_code == get_register_code(dest)
        value == atoi(Tail(src))
    IN  IF reg1_code = -1 THEN EncodeError("register", opcode)
        ELSE IF value < 0 \/ value > 255 THEN EncodeError("range", opcode)
        ELSE Encoded("MOV_RI", BitOr(BitOr(Shl(opcode, 11), Shl(reg1_code, 8)), value),
                     opcode, reg1_code, 0, value, 0)

\* The load and the store given each other's opcode.
EncodeMovDirect_Swapped(reg, mem, dest_is_mem) ==
    LET opcode == IF dest_is_mem THEN 7 ELSE 8
        reg1_code == get_register_code(reg)
        addr_str == SubSeq(mem, 2, Len(mem) - 1)
        value == ResolveAddress(addr_str)
    IN  IF reg1_code = -1 THEN EncodeError("register", opcode)
        ELSE IF value = -1 THEN EncodeError("label", opcode)
        ELSE IF value < 0 \/ value > 255 THEN EncodeError("range", opcode)
        ELSE Encoded(IF dest_is_mem THEN "MOV_ST" ELSE "MOV_LD",
                     BitOr(BitOr(Shl(opcode, 11), Shl(reg1_code, 8)), value),
                     opcode, reg1_code, 0, value, 0)

\* assembler.c:672-691: MOV reg, [addr] and MOV [addr], reg
EncodeMovDirect(reg, mem, dest_is_mem) ==
    LET opcode == IF dest_is_mem THEN 8 ELSE 7   \* 0b01000, 0b00111
        reg1_code == get_register_code(reg)
        addr_str == SubSeq(mem, 2, Len(mem) - 1)
        value == ResolveAddress(addr_str)
    IN  IF reg1_code = -1 THEN EncodeError("register", opcode)
        ELSE IF value = -1 THEN EncodeError("label", opcode)
        ELSE IF value < 0 \/ value > 255 THEN EncodeError("range", opcode)
        ELSE Encoded(IF dest_is_mem THEN "MOV_ST" ELSE "MOV_LD",
                     BitOr(BitOr(Shl(opcode, 11), Shl(reg1_code, 8)), value),
                     opcode, reg1_code, 0, value, 0)

\* assembler.c:692-698: MOV reg, reg
EncodeMovReg(dest, src) ==
    LET opcode == 18   \* 0b10010
        reg1_code == get_register_code(dest)
        reg2_code == get_register_code(src)
    IN  IF reg1_code = -1 \/ reg2_code = -1 THEN EncodeError("register", opcode)
        ELSE Encoded("MOV_RR", BitOr(BitOr(Shl(opcode, 11), Shl(reg1_code, 8)),
                                     Shl(reg2_code, 5)),
                     opcode, reg1_code, reg2_code, 0, 0)

\* assembler.c:627-700: MOV dispatches on the shape of its two operands
EncodeMov(parts) ==
    IF Len(parts) # 3 THEN EncodeError("arity", 0)
    ELSE LET dest == parts[2]
             src == parts[3]
             dest_is_mem == (CharAt(dest, 1) = "[")
             src_is_mem == (CharAt(src, 1) = "[")
             plus == strchr(IF dest_is_mem THEN dest ELSE src, "+")
         IN  IF dest_is_mem /\ src_is_mem THEN EncodeError("memmem", 0)
             ELSE IF (dest_is_mem \/ src_is_mem) /\ plus # 0
                  THEN EncodeMovBaseOffset(dest, src, dest_is_mem)
             ELSE IF ~dest_is_mem /\ CharAt(src, 1) = "#" THEN EncodeMovImm(dest, src)
             ELSE IF ~dest_is_mem /\ src_is_mem THEN EncodeMovDirect(dest, src, FALSE)
             ELSE IF dest_is_mem /\ ~src_is_mem THEN EncodeMovDirect(src, dest, TRUE)
             ELSE IF ~dest_is_mem /\ ~src_is_mem THEN EncodeMovReg(dest, src)
             ELSE EncodeError("operands", 0)

\* assembler.c:529-706: the word encode_instruction returns, with its locals
EncodeState(line) ==
    LET parts == Tokens(Take(line, MAX_LINE_LENGTH - 1), 4)
        opcode_str == StrUpper(parts[1])
    IN  IF Len(parts) = 0 THEN Encoded("empty", 0, 0, 0, 0, 0, 0)
        ELSE IF opcode_str = Mn.HLT THEN Encoded("Z", Shl(0, 11), 0, 0, 0, 0, 0)
        ELSE IF opcode_str = Mn.RET THEN Encoded("Z", Shl(14, 11), 14, 0, 0, 0, 0)
        ELSE IF opcode_str \in OneRegMnemonics THEN EncodeOneReg(opcode_str, parts)
        ELSE IF opcode_str \in BranchMnemonics THEN EncodeBranch(opcode_str, parts)
        ELSE IF opcode_str \in AluMnemonics THEN EncodeAlu(opcode_str, parts)
        ELSE IF opcode_str = Mn.MOV THEN EncodeMov(parts)
        ELSE EncodeError("mnemonic", 0)

encode_instruction(line) == EncodeState(line).instruction

----------------------------------------------------------------------------
(* Extended assembler: load_program, build_symbol_table, assemble, main *)

\* fgets(line_buffer, MAX_LINE_LENGTH, f): one line of the file is read in pieces
\* of at most MAX_LINE_LENGTH - 1 characters, its newline included.
RECURSIVE Chunks(_)
Chunks(line) ==
    IF Len(line) <= MAX_LINE_LENGTH - 2 THEN <<line>>
    ELSE <<Take(line, MAX_LINE_LENGTH - 1)>> \o Chunks(Drop(line, MAX_LINE_LENGTH - 1))

\* The pieces of every line of the file, in order (halving keeps the
\* evaluation shallow).
RECURSIVE FileChunks(_)
FileChunks(lines) ==
    IF Len(lines) = 0 THEN <<>>
    ELSE IF Len(lines) = 1 THEN Chunks(lines[1])
    ELSE FileChunks(SubSeq(lines, 1, Len(lines) \div 2))
         \o FileChunks(SubSeq(lines, (Len(lines) \div 2) + 1, Len(lines)))

\* assembler.c:418-430: newline cut, comment cut, leading white space skipped
TrimmedLine(line_buffer) == SkipSpace(CutAt(CutAt(line_buffer, {"\r", "\n"}), {";"}))

\* assembler.c:407-444: the loop stores each non-empty trimmed line while
\* i < PROGRAM_SIZE, so it keeps the first PROGRAM_SIZE of them.
IsStored(chunk) == Len(TrimmedLine(chunk)) # 0
load_program(file) ==
    LET kept == Take(SelectSeq(FileChunks(file.lines), IsStored), PROGRAM_SIZE)
    IN  [i \in 1..Len(kept) |-> TrimmedLine(kept[i])]

\* assembler.c:453-455, 468-472: the label before the first ':' of a row and the
\* row that replaces it for the second pass.
HasLabel(line_copy) == strchr(line_copy, ":") # 0
LabelName(line_copy) ==
    Take(SubSeq(line_copy, 1, strchr(line_copy, ":") - 1), MAX_LABEL_LENGTH - 1)
StrippedRow(line_copy) ==
    IF HasLabel(line_copy) THEN SkipSpace(Drop(line_copy, strchr(line_copy, ":")))
    ELSE line_copy

\* Every label recorded at the index of its row, label-only rows counted.
build_symbol_table_RowIndex(rows) ==
    LET lines == [i \in 1..Len(rows) |-> StrippedRow(rows[i])]
        RowHasLabel(i) == HasLabel(rows[i])
        label_rows == SelectSeq([i \in 1..Len(rows) |-> i], RowHasLabel)
        stored == IF Len(label_rows) < MAX_LABELS THEN Len(label_rows) ELSE MAX_LABELS
    IN  [ table |-> [k \in 1..stored |->
                       [name |-> LabelName(rows[label_rows[k]]),
                        address |-> label_rows[k] - 1]],
          lines |-> lines,
          warned |-> [k \in 1..(Len(label_rows) - stored) |-> "max_labels"] ]

\* assembler.c:446-480.  Row i is rewritten on its own; instruction_address at
\* row i counts the rewritten rows before it that are not empty; the first
\* MAX_LABELS labels are stored, each further one gives a warning.
build_symbol_table(rows) ==
    LET lines == [i \in 1..Len(rows) |-> StrippedRow(rows[i])]
        instruction_address(i) == Cardinality({j \in 1..(i - 1) : Len(lines[j]) # 0})
        RowHasLabel(i) == HasLabel(rows[i])
        label_rows == SelectSeq([i \in 1..Len(rows) |-> i], RowHasLabel)
        stored == IF Len(label_rows) < MAX_LABELS THEN Len(label_rows) ELSE MAX_LABELS
    IN  [ table |-> [k \in 1..stored |->
                       [name |-> LabelName(rows[label_rows[k]]),
                        address |-> instruction_address(label_rows[k])]],
          lines |-> lines,
          warned |-> [k \in 1..(Len(label_rows) - stored) |-> "max_labels"] ]

\* assembler.c:491-510.  The loop encodes the non-empty rows in order and
\* returns -1 at the first row whose word is the sentinel; code holds the words
\* written to machine_code[] before that.
assemble(rows) ==
    LET IsBad(i) == Len(rows[i]) # 0 /\ encode_instruction(rows[i]) = ERROR_SENTINEL
        failed == \E i \in 1..Len(rows) : IsBad(i)
        stop == IF failed
                THEN CHOOSE i \in 1..Len(rows) : IsBad(i) /\ \A j \in 1..(i - 1) : ~IsBad(j)
                ELSE Len(rows) + 1
        IsInstruction(i) == Len(rows[i]) # 0
        encoded == SelectSeq([i \in 1..(stop - 1) |-> i], IsInstruction)
    IN  [ code |-> [k \in 1..Len(encoded) |-> encode_instruction(rows[encoded[k]])],
          failed |-> failed,
          err |-> IF failed THEN EncodeState(rows[stop]).err ELSE "none" ]

AbsentFile == [exists |-> FALSE, words |-> <<>>]

\* main, assembler.c:376-380
AsmLoad ==
    /\ asm_pc = "load"
    /\ IF source.readable
       THEN /\ program_memory' = load_program(source)
            /\ program_line_count' = Len(load_program(source))
            /\ asm_pc' = "pass1"
            /\ UNCHANGED <<exit_code, asm_stderr>>
       ELSE /\ exit_code' = 1
            /\ asm_pc' = "exit"
            /\ asm_stderr' = Append(asm_stderr, "load_failed")
            /\ UNCHANGED <<program_memory, program_line_count>>
    /\ UNCHANGED <<source, symbol_table, label_count, asm_code, instruction_count,
                   out_file, sim_vars>>

\* main, assembler.c:383-385
AsmBuildSymbolTable ==
    /\ asm_pc = "pass1"
    /\ LET st == build_symbol_table(program_memory) IN
         /\ symbol_table' = st.table
         /\ label_count' = Len(st.table)
         /\ program_memory' = st.lines
         /\ asm_stderr' = asm_stderr \o st.warned
    /\ asm_pc' = "pass2"
    /\ UNCHANGED <<source, program_line_count, asm_code, instruction_count,
                   out_file, exit_code, sim_vars>>

\* The second pass going on to the write with the words encoded before a failure.
AsmAssemble_WritesPartial ==
    /\ asm_pc = "pass2"
    /\ LET st == assemble(program_memory) IN
         /\ asm_code' = st.code
         /\ instruction_count' = Len(st.code)
         /\ asm_pc' = "write"
         /\ UNCHANGED <<exit_code, asm_stderr>>
    /\ UNCHANGED <<source, program_memory, program_line_count, symbol_table,
                   label_count, out_file, sim_vars>>

\* main, assembler.c:388-394
AsmAssemble ==
    /\ asm_pc = "pass2"
    /\ LET st == assemble(program_memory) IN
         /\ asm_code' = st.code
         /\ IF st.failed
            THEN /\ exit_code' = 1
                 /\ asm_pc' = "exit"
                 /\ asm_stderr' = asm_stderr \o <<st.err, "assembly_failed">>
                 /\ instruction_count' = -1
            ELSE /\ instruction_count' = Len(st.code)
                 /\ asm_pc' = "write"
                 /\ UNCHANGED <<exit_code, asm_stderr>>
    /\ UNCHANGED <<source, program_memory, program_line_count, symbol_table,
                   label_count, out_file, sim_vars>>

\* write_binary_file, assembler.c:709-724, from main, assembler.c:397-404.
\* fopen may fail; fwrite may write fewer than instruction_count words.
AsmWrite ==
    /\ asm_pc = "write"
    /\ \/ /\ out_file' = [exists |-> TRUE, words |-> SubSeq(asm_code, 1, instruction_count)]
          /\ exit_code' = 0
          /\ UNCHANGED asm_stderr
       \/ /\ UNCHANGED out_file
          /\ exit_code' = 1
          /\ asm_stderr' = asm_stderr \o <<"open_failed", "write_failed">>
       \/ \E written \in 0..(instruction_count - 1) :
             /\ out_file' = [exists |-> TRUE, words |-> SubSeq(asm_code, 1, written)]
             /\ exit_code' = 1
             /\ asm_stderr' = asm_stderr \o <<"short_write", "write_failed">>
    /\ asm_pc' = "exit"
    /\ UNCHANGED <<source, program_memory, program_line_count, symbol_table,
                   label_count, asm_code, instruction_count, sim_vars>>

----------------------------------------------------------------------------
(* Extended simulator: src/unnamed/part_000 *)

\* The registers and memory words are C ints of 32 bits.  Every operator below
\* keeps its intermediate values within that width.
INT_MAX == 2147483647
INT_MIN == 0 - INT_MAX - 1

\* a + b leaves the range of int (undefined in C).
AddOverflows(a, b) == (b > 0 /\ a > INT_MAX - b) \/ (b < 0 /\ a < INT_MIN - b)
\* a + b modulo 2^32, as a two's-complement int
IntAdd(a, b) ==
    IF b > 0 /\ a > INT_MAX - b THEN (a - INT_MAX - 1) + (b - INT_MAX - 1)
    ELSE IF b < 0 /\ a < INT_MIN - b THEN (a + INT_MAX + 1) + (b + INT_MAX + 1)
    ELSE a + b
SubOverflows(a, b) == (b < 0 /\ a > INT_MAX + b) \/ (b > 0 /\ a < INT_MIN + b)
\* a - b modulo 2^32, as a two's-complement int
IntSub(a, b) ==
    IF b < 0 /\ a > INT_MAX + b THEN (a - INT_MAX - 1) - (b + INT_MAX + 1)
    ELSE IF b > 0 /\ a < INT_MIN + b THEN (a + INT_MAX + 1) - (b - INT_MAX - 1)
    ELSE a - b

\* The four bytes of the two's-complement representation of a, lowest first.
Bytes(a) ==
    LET u == IF a < 0 THEN a + INT_MAX + 1 ELSE a
        top == (u \div 16777216) + (IF a < 0 THEN 128 ELSE 0)
    IN  << u % 256, (u \div 256) % 256, (u \div 65536) % 256, top >>
FromBytes(bs) ==
    LET low == bs[1] + 256 * bs[2] + 65536 * bs[3] IN
    IF bs[4] >= 128 THEN ((bs[4] - 128) * 16777216 + low) - INT_MAX - 1
    ELSE bs[4] * 16777216 + low

\* a * b modulo 2^32, as a two's-complement int
IntMul(a, b) ==
    LET x == Bytes(a)
        y == Bytes(b)
        c1 == x[1] * y[1]
        c2 == x[1] * y[2] + x[2] * y[1] + (c1 \div 256)
        c3 == x[1] * y[3] + x[2] * y[2] + x[3] * y[1] + (c2 \div 256)
        c4 == x[1] * y[4] + x[2] * y[3] + x[3] * y[2] + x[4] * y[1] + (c3 \div 256)
    IN  FromBytes(<< c1 % 256, c2 % 256, c3 % 256, c4 % 256 >>)

\* a / b for b # 0: C's division truncates toward zero; INT_MIN / -1 leaves the
\* range of int (undefined in C) and is shown as INT_MIN.
DivOverflows(a, b) == a = INT_MIN /\ b = -1
Abs(a) == IF a < 0 THEN 0 - a ELSE a
CDiv(a, b) ==
    IF b = INT_MIN THEN (IF a = INT_MIN THEN 1 ELSE 0)
    ELSE IF a = INT_MIN
         THEN IF b = -1 THEN INT_MIN
              ELSE IF b = 1 THEN INT_MIN
              ELSE IF b > 0 THEN 0 - (((INT_MAX - b) + 1) \div b) - 1
              ELSE (((INT_MAX + b) + 1) \div (0 - b)) + 1
    ELSE IF (a < 0) = (b < 0) THEN Abs(a) \div Abs(b)
    ELSE 0 - (Abs(a) \div Abs(b))
\* a * b leaves the range of int (undefined in C): the product modulo 2^32
\* divided by a does not give b back.
MulOverflows(a, b) ==
    /\ a # 0
    /\ b # 0
    /\ (a = -1 /\ b = INT_MIN) \/ CDiv(IntMul(a, b), a) # b

RECURSIVE BitXor(_, _)
BitXor(a, b) ==
    IF a = 0 THEN b
    ELSE IF b = 0 THEN a
    ELSE (IF (a % 2) # (b % 2) THEN 1 ELSE 0) + 2 * BitXor(a \div 2, b \div 2)
\* a ^ b and ~a on two's-complement ints
IntXor(a, b) == FromBytes([i \in 1..4 |-> BitXor(Bytes(a)[i], Bytes(b)[i])])
IntNot(a) == (0 - 1) - a

ESP == 7
EBP == 6
\* part_000:32
register_names == << <<"E","A","X">>, <<"E","B","X">>, <<"E","C","X">>, <<"E","D","X">>,
                     <<"E","S","I">>, <<"E","D","I">>, <<"E","B","P">>, <<"E","S","P">> >>
STACK_TOP == MEMORY_SIZE - 1

\* part_000:206-218
get_register_value(regs, reg_code) == IF reg_code \in 0..7 THEN regs[reg_code] ELSE 0
\* part_000:220-231
set_register_value(regs, reg_code, value) ==
    IF reg_code \in 0..7 THEN [regs EXCEPT ![reg_code] = value] ELSE regs
\* part_000:233-239
write_memory(mem, address, data) ==
    IF address >= 0 /\ address < MEMORY_SIZE THEN [mem EXCEPT ![address] = data] ELSE mem
\* A read that answers -1 for an invalid address.
read_memory_MinusOne(mem, address) ==
    IF address >= 0 /\ address < MEMORY_SIZE THEN mem[address] ELSE 0 - 1
\* part_000:241-245
read_memory(mem, address) ==
    IF address >= 0 /\ address < MEMORY_SIZE THEN mem[address] ELSE 0

\* Decoding, part_000:98-119
DecodeOpcode(instruction) == Shr(instruction, 11)
DecodeReg1(instruction) == BitAnd(Shr(instruction, 8), 7)
DecodeReg2(instruction) == BitAnd(Shr(instruction, 5), 7)
DecodeValue(instruction) == BitAnd(instruction, 255)
DecodeOffset(instruction) == BitAnd(instruction, 31)

\* The operation each case label of the switch (and the early if) carries out,
\* part_000:101 and part_000:124-198.
SimOperation(opcode) ==
    CASE opcode = 0 -> "HLT"       [] opcode = 1 -> "MUL"
      [] opcode = 2 -> "DIV"       [] opcode = 3 -> "XOR"
      [] opcode = 4 -> "INP"       [] opcode = 5 -> "OUT"
      [] opcode = 6 -> "MOV_RI"    [] opcode = 7 -> "MOV_LD"
      [] opcode = 8 -> "MOV_ST"    [] opcode = 9 -> "INC"
      [] opcode = 10 -> "DEC"      [] opcode = 11 -> "PUSH"
      [] opcode = 12 -> "POP"      [] opcode = 13 -> "CALL"
      [] opcode = 14 -> "RET"      [] opcode = 15 -> "MOV_LDB"
      [] opcode = 16 -> "ADD"      [] opcode = 17 -> "SUB"
      [] opcode = 18 -> "MOV_RR"   [] opcode = 19 -> "ADDI"
      [] opcode = 20 -> "SUBI"     [] opcode = 21 -> "CMPI"
      [] opcode = 22 -> "NOT"      [] opcode = 23 -> "CMP"
      [] opcode = 24 -> "JMP"      [] opcode = 25 -> "JE"
      [] opcode = 26 -> "JNE"      [] opcode = 27 -> "JG"
      [] opcode = 28 -> "JL"       [] opcode = 29 -> "JGE"
      [] opcode = 30 -> "JLE"      [] opcode = 31 -> "MOV_STB"
      [] OTHER -> "unknown"

\* The machine state an instruction works on and leaves behind.
\* next_pc = -1 ends the run; ub: a signed overflow happened (the value shown is
\* the wrapped one); hang: the instruction never returns.
MachineState ==
    [ registers |-> registers, flags |-> flags, memory |-> memory,
      stdin |-> stdin, console |-> console,
      next_pc |-> pc + 1, ub |-> FALSE, hang |-> FALSE, end |-> "none" ]

\* The arithmetic result also sets ZF and SF.
SetArith_SetsFlags(m, reg, x, overflows) ==
    [m EXCEPT !.registers = set_register_value(m.registers, reg, x),
              !.flags = [ZF |-> IF x = 0 THEN 1 ELSE 0, SF |-> IF x < 0 THEN 1 ELSE 0],
              !.ub = overflows]

\* A register write of an arithmetic result x.
SetArith(m, reg, x, overflows) ==
    [m EXCEPT !.registers = set_register_value(m.registers, reg, x),
              !.ub = overflows]

\* part_000:101-113
ExecBaseOffset(m, instruction) ==
    LET reg_dest_src == DecodeReg1(instruction)
        reg_base == DecodeReg2(instruction)
        base == get_register_value(m.registers, reg_base)
        effective_address == IntAdd(base, DecodeOffset(instruction))
        m1 == [m EXCEPT !.ub = AddOverflows(base, DecodeOffset(instruction))]
    IN  IF SimOperation(DecodeOpcode(instruction)) = "MOV_LDB"
        THEN [m1 EXCEPT !.registers = set_register_value(m.registers, reg_dest_src,
                                          read_memory(m.memory, effective_address))]
        ELSE [m1 EXCEPT !.memory = write_memory(m.memory, effective_address,
                                       get_register_value(m.registers, reg_dest_src))]

\* An INP that leaves the offending line in the input stream.
ExecInp_KeepsLine(m, reg1) ==
    IF Len(m.stdin) = 0
    THEN [m EXCEPT !.hang = TRUE]
    ELSE IF Head(m.stdin).numeric
    THEN [m EXCEPT !.registers = set_register_value(m.registers, reg1, Head(m.stdin).value),
                   !.stdin = Tail(m.stdin),
                   !.hang = ~Head(m.stdin).nl]
    ELSE [m EXCEPT !.registers = set_register_value(m.registers, reg1, 0),
                   !.hang = ~Head(m.stdin).nl]

\* part_000:136-147: scanf("%d"), then while (getchar() != '\n') discards the
\* rest of the line.  At the end of input getchar returns EOF for ever, so the
\* loop ends only on a line that has its newline; after a failed scanf the
\* register is set after the loop.
ExecInp(m, reg1) ==
    IF Len(m.stdin) = 0
    THEN [m EXCEPT !.hang = TRUE]
    ELSE IF Head(m.stdin).numeric
    THEN [m EXCEPT !.registers = set_register_value(m.registers, reg1, Head(m.stdin).value),
                   !.stdin = Tail(m.stdin),
                   !.hang = ~Head(m.stdin).nl]
    ELSE IF Head(m.stdin).nl
    THEN [m EXCEPT !.registers = set_register_value(m.registers, reg1, 0),
                   !.stdin = Tail(m.stdin)]
    ELSE [m EXCEPT !.stdin = Tail(m.stdin), !.hang = TRUE]

\* part_000:163-177: CMP sets ZF and SF from reg1 - operand
ExecCmp(m, reg1, operand) ==
    LET minuend == get_register_value(m.registers, reg1)
        result == IntSub(minuend, operand)
    IN  [m EXCEPT !.flags = [ZF |-> IF result = 0 THEN 1 ELSE 0,
                             SF |-> IF result < 0 THEN 1 ELSE 0],
                  !.ub = SubOverflows(minuend, operand)]

\* JG taken whenever SF is clear, as JGE is.
ExecJump_JGIgnoresZF(m, op, addr) ==
    LET ZF == m.flags.ZF # 0
        SF == m.flags.SF # 0
        taken == CASE op = "JMP" -> TRUE
                   [] op = "JE" -> ZF
                   [] op = "JNE" -> ~ZF
                   [] op = "JG" -> ~SF
                   [] op = "JL" -> SF
                   [] op = "JGE" -> ~SF
                   [] op = "JLE" -> ZF \/ SF
    IN  IF taken THEN [m EXCEPT !.next_pc = addr] ELSE m

\* part_000:178-184
ExecJump(m, op, addr) ==
    LET ZF == m.flags.ZF # 0
        SF == m.flags.SF # 0
        taken == CASE op = "JMP" -> TRUE
                   [] op = "JE" -> ZF
                   [] op = "JNE" -> ~ZF
                   [] op = "JG" -> ~ZF /\ ~SF
                   [] op = "JL" -> SF
                   [] op = "JGE" -> ~SF
                   [] op = "JLE" -> ZF \/ SF
    IN  IF taken THEN [m EXCEPT !.next_pc = addr] ELSE m

\* A RET that leaves the stack pointer where it was.
ExecStack_RetKeepsSP(m, op, reg1, addr, pc_) ==
    LET sp == get_register_value(m.registers, ESP)
        down == [m EXCEPT !.registers = [m.registers EXCEPT ![ESP] = IntSub(sp, 1)],
                          !.ub = SubOverflows(sp, 1)]
        loaded == set_register_value(m.registers, reg1, read_memory(m.memory, sp))
    IN  CASE op = "PUSH" -> [down EXCEPT !.memory = write_memory(m.memory, down.registers[ESP],
                                                 get_register_value(down.registers, reg1))]
          [] op = "POP" -> [m EXCEPT !.registers = [loaded EXCEPT ![ESP] = IntAdd(loaded[ESP], 1)],
                                     !.ub = AddOverflows(loaded[ESP], 1)]
          [] op = "CALL" -> [down EXCEPT !.memory = write_memory(m.memory, down.registers[ESP],
                                                                 pc_ + 1),
                                         !.next_pc = addr]
          [] op = "RET" -> [m EXCEPT !.next_pc = read_memory(m.memory, sp)]

\* POP leaving the stack pointer where it was.
ExecStack_PopKeepsSP(m, op, reg1, addr, pc_) ==
    LET sp == get_register_value(m.registers, ESP)
        down == [m EXCEPT !.registers = [m.registers EXCEPT ![ESP] = IntSub(sp, 1)],
                          !.ub = SubOverflows(sp, 1)]
        loaded == set_register_value(m.registers, reg1, read_memory(m.memory, sp))
    IN  CASE op = "PUSH" ->
               [down EXCEPT !.memory = write_memory(m.memory, down.registers[ESP],
                                          get_register_value(down.registers, reg1))]
          [] op = "POP" -> [m EXCEPT !.registers = loaded]
          [] op = "CALL" ->
               [down EXCEPT !.memory = write_memory(m.memory, down.registers[ESP], pc_ + 1),
                            !.next_pc = addr]
          [] op = "RET" ->
               [m EXCEPT !.registers = [m.registers EXCEPT ![ESP] = IntAdd(sp, 1)],
                         !.ub = AddOverflows(sp, 1),
                         !.next_pc = read_memory(m.memory, sp)]

\* CALL pushing the address of the CALL itself.
ExecStack_CallPushesPc(m, op, reg1, addr, pc_) ==
    LET sp == get_register_value(m.registers, ESP)
        down == [m EXCEPT !.registers = [m.registers EXCEPT ![ESP] = IntSub(sp, 1)],
                          !.ub = SubOverflows(sp, 1)]
        loaded == set_register_value(m.registers, reg1, read_memory(m.memory, sp))
    IN  CASE op = "PUSH" ->
               [down EXCEPT !.memory = write_memory(m.memory, down.registers[ESP],
                                          get_register_value(down.registers, reg1))]
          [] op = "POP" ->
               [m EXCEPT !.registers = [loaded EXCEPT ![ESP] = IntAdd(loaded[ESP], 1)],
                         !.ub = AddOverflows(loaded[ESP], 1)]
          [] op = "CALL" ->
               [down EXCEPT !.memory = write_memory(m.memory, down.registers[ESP], pc_),
                            !.next_pc = addr]
          [] op = "RET" ->
               [m EXCEPT !.registers = [m.registers EXCEPT ![ESP] = IntAdd(sp, 1)],
                         !.ub = AddOverflows(sp, 1),
                         !.next_pc = read_memory(m.memory, sp)]

\* part_000:187-194
ExecStack(m, op, reg1, addr, pc_) ==
    LET sp == get_register_value(m.registers, ESP)
        down == [m EXCEPT !.registers = [m.registers EXCEPT ![ESP] = IntSub(sp, 1)],
                          !.ub = SubOverflows(sp, 1)]
        loaded == set_register_value(m.registers, reg1, read_memory(m.memory, sp))
    IN  CASE op = "PUSH" ->
               [down EXCEPT !.memory = write_memory(m.memory, down.registers[ESP],
                                          get_register_value(down.registers, reg1))]
          [] op = "POP" ->
               [m EXCEPT !.registers = [loaded EXCEPT ![ESP] = IntAdd(loaded[ESP], 1)],
                         !.ub = AddOverflows(loaded[ESP], 1)]
          [] op = "CALL" ->
               [down EXCEPT !.memory = write_memory(m.memory, down.registers[ESP], pc_ + 1),
                            !.next_pc = addr]
          [] op = "RET" ->
               [m EXCEPT !.registers = [m.registers EXCEPT ![ESP] = IntAdd(sp, 1)],
                         !.ub = AddOverflows(sp, 1),
                         !.next_pc = read_memory(m.memory, sp)]

\* A division by zero that clears the dividend before ending the run.
ExecDiv_ClearsDividend(m, reg1, reg2) ==
    LET divisor == get_register_value(m.registers, reg2) IN
    IF divisor = 0
    THEN [m EXCEPT !.registers = set_register_value(m.registers, reg1, 0),
                   !.next_pc = -1, !.end = "div_by_zero"]
    ELSE SetArith(m, reg1, CDiv(get_register_value(m.registers, reg1), divisor),
                  DivOverflows(get_register_value(m.registers, reg1), divisor))

\* part_000:126-134
ExecDiv(m, reg1, reg2) ==
    LET divisor == get_register_value(m.registers, reg2) IN
    IF divisor = 0 THEN [m EXCEPT !.next_pc = -1, !.end = "div_by_zero"]
    ELSE SetArith(m, reg1, CDiv(get_register_value(m.registers, reg1), divisor),
                  DivOverflows(get_register_value(m.registers, reg1), divisor))

\* part_000:97-202, on the machine state m
ExecuteOn(m, instruction, pc_) ==
    LET op == SimOperation(DecodeOpcode(instruction))
        reg1 == DecodeReg1(instruction)
        reg2 == DecodeReg2(instruction)
        value == DecodeValue(instruction)
        addr == DecodeValue(instruction)
        r1 == get_register_value(m.registers, reg1)
        r2 == get_register_value(m.registers, reg2)
    IN  CASE op \in {"MOV_LDB", "MOV_STB"} -> ExecBaseOffset(m, instruction)
          [] op = "HLT" -> [m EXCEPT !.next_pc = -1, !.end = "hlt"]
          [] op = "MUL" -> SetArith(m, reg1, IntMul(r1, r2), MulOverflows(r1, r2))
          [] op = "DIV" -> ExecDiv(m, reg1, reg2)
          [] op = "XOR" -> [m EXCEPT !.registers = set_register_value(m.registers, reg1,
                                                      IntXor(r1, r2))]
          [] op = "INP" -> ExecInp(m, reg1)
          [] op = "OUT" -> [m EXCEPT !.console = Append(m.console, r1)]
          [] op = "MOV_RI" -> [m EXCEPT !.registers = set_register_value(m.registers, reg1, value)]
          [] op = "MOV_LD" -> [m EXCEPT !.registers = set_register_value(m.registers, reg1,
                                                         read_memory(m.memory, addr))]
          [] op = "MOV_ST" -> [m EXCEPT !.memory = write_memory(m.memory, addr, r1)]
          [] op = "INC" -> SetArith(m, reg1, IntAdd(r1, 1), AddOverflows(r1, 1))
          [] op = "DEC" -> SetArith(m, reg1, IntSub(r1, 1), SubOverflows(r1, 1))
          [] op = "ADD" -> SetArith(m, reg1, IntAdd(r1, r2), AddOverflows(r1, r2))
          [] op = "SUB" -> SetArith(m, reg1, IntSub(r1, r2), SubOverflows(r1, r2))
          [] op = "MOV_RR" -> [m EXCEPT !.registers = set_register_value(m.registers, reg1, r2)]
          [] op = "ADDI" -> SetArith(m, reg1, IntAdd(r1, value), AddOverflows(r1, value))
          [] op = "SUBI" -> SetArith(m, reg1, IntSub(r1, value), SubOverflows(r1, value))
          [] op = "CMPI" -> ExecCmp(m, reg1, value)
          [] op = "NOT" -> [m EXCEPT !.registers = set_register_value(m.registers, reg1,
                                                      IntNot(r1))]
          [] op = "CMP" -> ExecCmp(m, reg1, r2)
          [] op \in {"JMP", "JE", "JNE", "JG", "JL", "JGE", "JLE"} -> ExecJump(m, op, addr)
          [] op \in {"PUSH", "POP", "CALL", "RET"} -> ExecStack(m, op, reg1, addr, pc_)
          [] OTHER -> [m EXCEPT !.next_pc = -1, !.end = "unknown_opcode"]

execute_instruction(instruction, pc_) == ExecuteOn(MachineState, instruction, pc_)

----------------------------------------------------------------------------
(* Extended simulator: main, load_binary_program, run_program *)

NoInstruction == [valid |-> FALSE, pc |-> 0, word |-> 0]

\* A load that rejects a file of more than PROGRAM_SIZE words.
SimLoad_RejectsOversized ==
    /\ sim_state = "Load"
    /\ IF out_file.exists /\ Len(out_file.words) <= PROGRAM_SIZE
       THEN /\ machine_code' = out_file.words
            /\ program_instruction_count' = Len(out_file.words)
            /\ sim_state' = "Loaded"
            /\ UNCHANGED sim_exit
       ELSE /\ sim_state' = "LoadFailed"
            /\ sim_exit' = 1
            /\ UNCHANGED <<machine_code, program_instruction_count>>
    /\ UNCHANGED <<registers, flags, memory, pc, last, stdin, console, asm_vars>>

\* main and load_binary_program, part_000:48-83
SimLoad ==
    /\ sim_state = "Load"
    /\ IF out_file.exists
       THEN /\ machine_code' = Take(out_file.words, PROGRAM_SIZE)
            /\ program_instruction_count' = Len(Take(out_file.words, PROGRAM_SIZE))
            /\ sim_state' = "Loaded"
            /\ UNCHANGED sim_exit
       ELSE /\ sim_state' = "LoadFailed"
            /\ sim_exit' = 1
            /\ UNCHANGED <<machine_code, program_instruction_count>>
    /\ UNCHANGED <<registers, flags, memory, pc, last, stdin, console, asm_vars>>

\* How run_program's loop goes on after an instruction returned next_pc.
LoopState(next_pc, end) ==
    IF end = "hlt" THEN "Halted"
    ELSE IF end # "none" THEN "Faulted"
    ELSE IF next_pc >= 0 /\ next_pc < program_instruction_count THEN "Running"
    ELSE "Finished"

\* A start that sets the stack pointer only.
SimStart_EbpZero ==
    /\ sim_state = "Loaded"
    /\ pc' = 0
    /\ memory' = [a \in 0..(MEMORY_SIZE - 1) |-> 0]
    /\ registers' = [registers EXCEPT ![ESP] = STACK_TOP + 1]
    /\ sim_state' = LoopState(0, "none")
    /\ sim_exit' = IF LoopState(0, "none") = "Running" THEN sim_exit ELSE 0
    /\ UNCHANGED <<flags, machine_code, program_instruction_count, last, stdin,
                   console, asm_vars>>

\* run_program, part_000:86-89
SimStart ==
    /\ sim_state = "Loaded"
    /\ pc' = 0
    /\ memory' = [a \in 0..(MEMORY_SIZE - 1) |-> 0]
    /\ registers' = [registers EXCEPT ![ESP] = STACK_TOP + 1, ![EBP] = STACK_TOP + 1]
    /\ sim_state' = LoopState(0, "none")
    /\ sim_exit' = IF LoopState(0, "none") = "Running" THEN sim_exit ELSE 0
    /\ UNCHANGED <<flags, machine_code, program_instruction_count, last, stdin,
                   console, asm_vars>>

\* run_program, part_000:91-94: one turn of the loop.  A signed overflow is
\* undefined: the build either wraps or traps.
SimStep ==
    /\ sim_state = "Running"
    /\ LET instruction == machine_code[pc + 1]
           m == execute_instruction(instruction, pc)
       IN  /\ last' = [valid |-> TRUE, pc |-> pc, word |-> instruction]
           /\ \/ /\ ~m.hang
                 /\ registers' = m.registers
                 /\ flags' = m.flags
                 /\ memory' = m.memory
                 /\ stdin' = m.stdin
                 /\ console' = m.console
                 /\ pc' = m.next_pc
                 /\ sim_state' = LoopState(m.next_pc, m.end)
                 /\ sim_exit' = IF LoopState(m.next_pc, m.end) = "Running"
                                THEN sim_exit ELSE 0
              \/ /\ m.ub
                 /\ sim_state' = "Crashed"
                 /\ UNCHANGED <<registers, flags, memory, stdin, console, pc, sim_exit>>
              \/ /\ m.hang
                 /\ sim_state' = "Hung"
                 /\ registers' = m.registers
                 /\ stdin' = m.stdin
                 /\ UNCHANGED <<flags, memory, console, pc, sim_exit>>
    /\ UNCHANGED <<machine_code, program_instruction_count, asm_vars>>

----------------------------------------------------------------------------
(* Source files given to the extended assembler *)

\* Largest operand value written in the sources (one past the 8-bit field).
MaxOperand == 256
\* Largest base offset written in the sources (one past the 5-bit field).
MaxOffset == 32

RECURSIVE Dec(_)
Dec(n) == IF n < 0 THEN <<"-">> \o Dec(0 - n)
          ELSE IF n < 10 THEN <<DigitChars[n + 1]>>
          ELSE Dec(n \div 10) \o <<DigitChars[(n % 10) + 1]>>

Imm(n) == <<"#">> \o Dec(n)
Mem(a) == <<"[">> \o a \o <<"]">>
BaseOff(r, n) == <<"[">> \o r \o <<"+">> \o Dec(n) \o <<"]">>
Line1(m, a) == m \o <<" ">> \o a
Line2(m, a, b) == m \o <<" ">> \o a \o <<",", " ">> \o b

L_lab == <<"l","a","b">>
L_under == <<"_","l">>
L_none == <<"n","o","n","e">>
\* lab is defined at address 1 by a line of its own and _l at address 1 before an
\* instruction; the line under test is the file's last line, at address 2.
Prelude == << <<"H","L","T">>,
              <<"l","a","b",":">>,
              <<"_","l",":"," ","R","E","T">> >>

GoodRegs == Range(AsmRegNames)
R_lower == <<"e","a","x">>
R_bad == <<"E","X","X">>
RegToks == GoodRegs \cup {R_lower, R_bad}
ProbeValues == {0, 85, 170, 255, MaxOperand, -1}
ImmToks == {Imm(v) : v \in ProbeValues}
AddrToks == {Dec(v) : v \in {0, 255, MaxOperand, -1}} \cup {L_lab, L_under, L_none}
MemToks == {Mem(a) : a \in AddrToks}
           \cup {BaseOff(r, o) : r \in {AsmRegNames[7], AsmRegNames[8], R_bad},
                                 o \in {0, 31, MaxOffset, -1}}
           \cup { <<"[","E","B","P","-","8","]">> }
OperandToks == {AsmRegNames[1], AsmRegNames[8], R_lower, R_bad}
               \cup {Imm(v) : v \in {0, 255, MaxOperand, -1}} \cup AddrToks \cup MemToks

AllMnemonics == {Mn.HLT, Mn.RET, Mn.MOV} \cup OneRegMnemonics \cup BranchMnemonics
                \cup AluMnemonics
OtherMnemonics == { <<"N","O","P">>, <<"m","o","v">>, <<"h","l","t">> }

\* Every mnemonic with zero to four operands.
ArityLines ==
    LET r == AsmRegNames[1] IN
    UNION {{ m, Line1(m, r), Line2(m, r, r), Line2(m, r, r) \o <<" ">> \o r,
             Line2(m, r, r) \o <<" ">> \o r \o <<" ">> \o r }
           : m \in AllMnemonics \cup OtherMnemonics}
\* Every mnemonic with every pair of operand shapes.
ShapeLines ==
    {Line2(Mn.MOV, a, b) : a \in OperandToks, b \in OperandToks}
    \cup {Line2(m, a, b) : m \in AluMnemonics, a \in RegToks,
                           b \in {AsmRegNames[2], R_lower, R_bad} \cup ImmToks}
    \cup {Line1(m, a) : m \in OneRegMnemonics \cup BranchMnemonics, a \in OperandToks}
\* Every register with every value of each field.
FieldLines ==
    {Line2(Mn.MOV, r, Imm(v)) : r \in {AsmRegNames[1], AsmRegNames[8]}, v \in 0..MaxOperand}
    \cup {Line2(Mn.MOV, Mem(Dec(v)), AsmRegNames[8]) : v \in 0..MaxOperand}
    \cup {Line1(Mn.JMP, Dec(v)) : v \in 0..MaxOperand}
    \cup {Line2(Mn.MOV, r, BaseOff(b, o)) : r \in GoodRegs, b \in GoodRegs,
                                             o \in {0, 21, 31, MaxOffset}}
    \cup {Line2(Mn.MOV, BaseOff(b, o), r) : r \in GoodRegs, b \in GoodRegs,
                                             o \in {0, 21, 31, MaxOffset}}
    \cup {Line2(Mn.MOV, r, Mem(Dec(v))) : r \in GoodRegs, v \in {255, MaxOperand}}
    \cup {Line2(Mn.MOV, Mem(Dec(v)), r) : r \in GoodRegs, v \in {255, MaxOperand}}
    \cup {Line2(Mn.MOV, AsmRegNames[r], BaseOff(AsmRegNames[r], o)) : r \in {1, 8}, o \in 0..MaxOffset}
    \cup {Line2(Mn.MOV, BaseOff(AsmRegNames[r], o), AsmRegNames[r]) : r \in {1, 8}, o \in 0..MaxOffset}
    \cup {Line2(m, r, q) : m \in AluMnemonics \cup {Mn.MOV}, r \in GoodRegs, q \in GoodRegs}
    \cup {Line2(m, r, Imm(v)) : m \in {Mn.ADD, Mn.SUB, Mn.CMP, Mn.MOV}, r \in GoodRegs,
                                v \in ProbeValues}

\* The examples of the two base+offset forms, part_002:41-42:
\* MOV EAX, [EBP+4] and MOV [EBP-8], ECX.
ReadmeLoad == Line2(Mn.MOV, AsmRegNames[1], BaseOff(AsmRegNames[7], 4))
ReadmeStore == Line2(Mn.MOV, <<"[","E","B","P","-","8","]">>, AsmRegNames[3])

TestLines == ArityLines \cup ShapeLines \cup FieldLines \cup {ReadmeLoad, ReadmeStore}

\* Longest of the label programs.
MaxProgLines == 4

\* Programs of instruction lines, label-only lines, a label before an
\* instruction, a comment-only line and references to both labels.
LineKinds == { <<"I","N","C"," ","E","A","X">>,
               <<"a",":">>,
               <<"b",":"," ","D","E","C"," ","E","A","X">>,
               <<" ",";","c">>,
               <<"J","M","P"," ","a">>,
               <<"J","E"," ","b">> }
LabelPrograms == UNION {[1..n -> LineKinds] : n \in 1..MaxProgLines}

\* Number of label definitions in the largest many-label file.
MaxLabelDefs == 66
\* n lines "Lk: <instruction>", k = 1..n, then a jump to the label L1.
ManyLabels(n, instruction, jump) ==
    [k \in 1..(n + 1) |->
        IF k <= n THEN <<"L">> \o Dec(k) \o <<":", " ">> \o instruction
        ELSE Line1(Mn.JMP, <<"L", "1">>) \o jump]
\* Files of MAX_LABELS - 1 to MaxLabelDefs label definitions.
ManyLabelSources ==
    {ManyLabels(n, Mn.HLT, << >>) : n \in (MAX_LABELS - 1)..MaxLabelDefs}

\* Files of PROGRAM_SIZE and PROGRAM_SIZE + 1 instruction lines.
BigFiles == {[i \in 1..n |-> <<"H","L","T">>] : n \in {PROGRAM_SIZE, PROGRAM_SIZE + 1}}

AsmSources ==
    {[readable |-> TRUE, lines |-> Prelude \o <<l>>] : l \in TestLines}
    \cup {[readable |-> TRUE, lines |-> p] : p \in LabelPrograms \cup BigFiles}
    \cup {[readable |-> FALSE, lines |-> <<>>]}

\* The output path holds an older binary before some of the runs.
OldFile == [exists |-> TRUE, words |-> <<0>>]
OldFileSources ==
    {[readable |-> TRUE, lines |-> Prelude \o <<l>>] : l \in ArityLines}
    \cup {[readable |-> FALSE, lines |-> <<>>]}

AsmIdle ==
    /\ program_memory = <<>>
    /\ program_line_count = 0
    /\ symbol_table = <<>>
    /\ label_count = 0
    /\ asm_code = <<>>
    /\ instruction_count = 0
    /\ exit_code = -1
    /\ asm_stderr = <<>>

SimIdle ==
    /\ registers = [r \in 0..7 |-> 0]
    /\ flags = [ZF |-> 0, SF |-> 0]
    /\ memory = [a \in 0..(MEMORY_SIZE - 1) |-> 0]
    /\ machine_code = <<>>
    /\ program_instruction_count = 0
    /\ pc = 0
    /\ last = NoInstruction
    /\ stdin = <<>>
    /\ sim_exit = -1
    /\ console = <<>>

AsmInit ==
    /\ source \in AsmSources
    /\ out_file \in {AbsentFile} \cup (IF source \in OldFileSources THEN {OldFile} ELSE {})
    /\ asm_pc = "load"
    /\ AsmIdle
    /\ SimIdle
    /\ sim_state = "Off"

AsmNext == AsmLoad \/ AsmBuildSymbolTable \/ AsmAssemble \/ AsmWrite

SpecAsm == AsmInit /\ [][AsmNext]_vars

\* The extended assembler run on the files of many labels.
ManyLabelsInit ==
    /\ source \in {[readable |-> TRUE, lines |-> p] : p \in ManyLabelSources}
    /\ out_file = AbsentFile
    /\ asm_pc = "load"
    /\ AsmIdle
    /\ SimIdle
    /\ sim_state = "Off"
SpecManyLabels == ManyLabelsInit /\ [][AsmNext]_vars

----------------------------------------------------------------------------
(* Binary programs given to the extended simulator *)

\* Largest value compared in the branch programs.
MaxCmp == 2

Word(opcode, reg1, reg2, low) == opcode * 2048 + reg1 * 256 + reg2 * 32 + low

\* MOV EAX,#a / CMP EAX,#b / Jcc t / OUT EAX / HLT / OUT EBX
BranchPrograms ==
    { << Word(6, 0, 0, a), Word(21, 0, 0, b), Word(cc, 0, 0, t),
         Word(5, 0, 0, 0), Word(0, 0, 0, 0), Word(5, 1, 0, 0) >>
      : a \in 0..MaxCmp, b \in 0..MaxCmp, cc \in 24..30, t \in {1, 4, 5, 6, 200} }
    \cup { << Word(cc, 0, 0, t), Word(5, 0, 0, 0), Word(0, 0, 0, 0) >>
           : cc \in 24..30, t \in {0, 2, 3} }

\* MOV EAX,#255 / MUL EAX,EAX / OUT EAX ; INP EAX / OUT EAX / INP EBX ;
\* MOV EBX,#5 / CMP EBX,#9 / MOV [3],EBX / INP EBX / INP ECX / OUT EBX / OUT ECX
OtherPrograms ==
    { << Word(6, 0, 0, 255), Word(1, 0, 0, 0), Word(5, 0, 0, 0) >>,
      << Word(4, 0, 0, 0), Word(5, 0, 0, 0), Word(4, 1, 0, 0) >>,
      << Word(6, 1, 0, 5), Word(21, 1, 0, 9), Word(8, 1, 0, 3), Word(4, 1, 0, 0),
         Word(4, 2, 0, 0), Word(5, 1, 0, 0), Word(5, 2, 0, 0) >>,
      << >> }

\* A line of console input holding the integer v.
Number(v) == [numeric |-> TRUE, value |-> v, nl |-> TRUE]
\* A line of console input that does not start with an integer.
Text == [numeric |-> FALSE, value |-> 0, nl |-> TRUE]
\* The last line of an input that ends without a newline.
Unterminated(l) == [l EXCEPT !.nl = FALSE]

SimInputs == { << >>, << Number(7) >>, << Text, Number(7) >>, << Text, Text, Number(7) >>,
               << Unterminated(Number(7)) >>, << Number(7), Unterminated(Text) >> }
\* Register values typed at the console: both ends of int and values near 0.
ProbeInts == {INT_MIN, INT_MIN + 1, -1, 0, 1, 2, INT_MAX - 1, INT_MAX}
\* Largest immediate of the arithmetic programs.
MaxImm == 1

\* INP EAX / INP EBX / <op> EAX, EBX|#v / OUT EAX / JL 6 / OUT EBX / HLT
ArithWords ==
    {Word(op, 0, 1, 0) : op \in {1, 2, 3, 16, 17, 18, 23}}
    \cup {Word(op, 0, 0, 0) : op \in {9, 10, 22}}
    \cup {Word(op, 0, 0, v) : op \in {19, 20, 21}, v \in 0..MaxImm}
    \cup {Word(23, 0, 0, 0)}
ArithPrograms ==
    { << Word(4, 0, 0, 0), Word(4, 1, 0, 0), w, Word(5, 0, 0, 0), Word(28, 0, 0, 6),
         Word(5, 1, 0, 0), Word(0, 0, 0, 0) >> : w \in ArithWords }
ArithInputs == { << Number(a), Number(b) >> : a \in ProbeInts, b \in ProbeInts }

\* Stack pointers typed at the console: around both ends of memory and of int.
ProbeStack == {INT_MIN, -1, 0, 1, 2, 255, 256, 257, INT_MAX}
\* INP ESP / MOV EAX,#5 / MOV [254],EAX / <op> / OUT EAX / OUT ESP / HLT / OUT EBX / RET
\* op: PUSH, POP, CALL 7, RET, base+offset and direct loads and stores.
StackWords ==
    {Word(11, r, 0, 0) : r \in {0, ESP}} \cup {Word(12, r, 0, 0) : r \in {0, ESP}}
    \cup {Word(13, 0, 0, 7), Word(14, 0, 0, 0)}
    \cup {Word(op, 0, ESP, o) : op \in {15, 31}, o \in {0, 1, 31}}
    \cup {Word(op, 0, 0, a) : op \in {7, 8}, a \in {0, 255}}
StackPrograms ==
    { << Word(4, ESP, 0, 0), Word(6, 0, 0, 5), Word(8, 0, 0, 254), w, Word(5, 0, 0, 0),
         Word(5, ESP, 0, 0), Word(0, 0, 0, 0), Word(5, 1, 0, 0), Word(14, 0, 0, 0) >>
      : w \in StackWords }
StackInputs == { << Number(sp) >> : sp \in ProbeStack }

\* MOV EAX,#9 / CALL 4 / OUT EAX / HLT / <body> / RET, the body being a push
\* and pop, a store over the return address, an unbalanced push, a pop of the
\* return address before HLT, or a nested call.
CallBodies ==
    { << Word(11, 0, 0, 0), Word(12, 0, 0, 0) >>,
      << Word(8, 0, 0, 255), Word(9, 0, 0, 0) >>,
      << Word(11, 0, 0, 0), Word(9, 0, 0, 0) >>,
      << Word(12, 1, 0, 0), Word(0, 0, 0, 0) >>,
      << Word(13, 0, 0, 6), Word(5, 0, 0, 0) >> }
CallPrograms ==
    { << Word(6, 0, 0, 9), Word(13, 0, 0, 4), Word(5, 0, 0, 0), Word(0, 0, 0, 0) >>
         \o body \o << Word(14, 0, 0, 0) >> : body \in CallBodies }

\* Files of PROGRAM_SIZE - 1 to PROGRAM_SIZE + 1 words: MOV EAX,#k at address
\* k, and OUT EAX as the word past the capacity.
LongPrograms ==
    { [k \in 1..n |-> IF k <= PROGRAM_SIZE THEN Word(6, 0, 0, k - 1) ELSE Word(5, 0, 0, 0)]
      : n \in (PROGRAM_SIZE - 1)..(PROGRAM_SIZE + 1) }

\* Programs that leave the stack unbalanced without writing ESP:
\* POP EAX / POP EBX / OUT ESP / HLT, and MOV EBX,#129 / PUSH EAX / PUSH EAX /
\* SUB EBX,#1 / CMP EBX,#0 / JNE 1 / OUT ESP / HLT (258 pushes).
UnbalancedPrograms ==
    { << Word(12, 0, 0, 0), Word(12, 1, 0, 0), Word(5, ESP, 0, 0), Word(0, 0, 0, 0) >>,
      << Word(6, 1, 0, 129), Word(11, 0, 0, 0), Word(11, 0, 0, 0), Word(20, 1, 0, 1),
         Word(21, 1, 0, 0), Word(26, 0, 0, 1), Word(5, ESP, 0, 0), Word(0, 0, 0, 0) >> }

\* MOV EAX,#0 / SUB EAX,#1 / PUSH EAX / RET / OUT EAX / HLT: a return to the
\* address -1.
ReturnProgram ==
    << Word(6, 0, 0, 0), Word(20, 0, 0, 1), Word(11, 0, 0, 0), Word(14, 0, 0, 0),
       Word(5, 0, 0, 0), Word(0, 0, 0, 0) >>

SimPrograms == BranchPrograms \cup OtherPrograms \cup ArithPrograms
               \cup StackPrograms \cup CallPrograms \cup LongPrograms
               \cup UnbalancedPrograms \cup {ReturnProgram}

\* A binary file with the console input of its run.
SimRuns ==
    {[words |-> p, stdin |-> << >>] : p \in BranchPrograms \cup CallPrograms \cup LongPrograms
                                         \cup UnbalancedPrograms
                                         \cup {ReturnProgram}}
    \cup {[words |-> p, stdin |-> i] : p \in OtherPrograms, i \in SimInputs}
    \cup {[words |-> p, stdin |-> i] : p \in ArithPrograms, i \in ArithInputs}
    \cup {[words |-> p, stdin |-> i] : p \in StackPrograms, i \in StackInputs}

SimInit ==
    /\ source = [readable |-> FALSE, lines |-> <<>>]
    /\ asm_pc = "off"
    /\ AsmIdle
    /\ \/ \E run \in SimRuns :
            /\ out_file = [exists |-> TRUE, words |-> run.words]
            /\ stdin = run.stdin
       \/ out_file = AbsentFile /\ stdin = << >>
    /\ registers = [r \in 0..7 |-> 0]
    /\ flags = [ZF |-> 0, SF |-> 0]
    /\ memory = [a \in 0..(MEMORY_SIZE - 1) |-> 0]
    /\ machine_code = <<>>
    /\ program_instruction_count = 0
    /\ pc = 0
    /\ last = NoInstruction
    /\ sim_exit = -1
    /\ console = <<>>
    /\ sim_state = "Load"

SimNext == SimLoad \/ SimStart \/ SimStep

SpecSim == SimInit /\ [][SimNext]_vars

----------------------------------------------------------------------------
(* Properties of the extended assembler *)

NonEmpty(row) == Len(row) # 0
\* The rows the second pass encodes, in order.
InstrRows == SelectSeq(program_memory, NonEmpty)
\* assemble returned a count: every row was encoded.
Assembled == source.readable /\ asm_pc \in {"write", "exit"} /\ instruction_count >= 0
\* assemble returned -1.
AssemblyFailed == asm_pc = "exit" /\ instruction_count = -1

IsNumeral(t) ==
    /\ Len(t) > 0
    /\ \A i \in 1..Len(t) : isdigit(t[i])
    /\ (Len(t) > 1 => t[1] # "0")

RegForms1 == {"R", "RI", "RR", "MOV_RI", "MOV_RR", "MOV_LD", "MOV_ST", "MOV_LDB", "MOV_STB"}
RegForms2 == {"RR", "MOV_RR", "MOV_LDB", "MOV_STB"}
ValueForms == {"J", "RI", "MOV_RI", "MOV_LD", "MOV_ST"}
OffsetForms == {"MOV_LDB", "MOV_STB"}

\* The decoded fields of word w are the fields encode_instruction packed.
FieldsRecovered(e, w) ==
    /\ DecodeOpcode(w) = e.opcode
    /\ e.form \in RegForms1 => DecodeReg1(w) = e.reg1
    /\ e.form \in RegForms2 => DecodeReg2(w) = e.reg2
    /\ e.form \in ValueForms => DecodeValue(w) = e.value
    /\ e.form \in OffsetForms => DecodeOffset(w) = e.offset

\* The decoded fields of word w, written out, are the operands of the line.
TextRecovered(e, parts, w) ==
    LET r1 == register_names[DecodeReg1(w) + 1]
        r2 == register_names[DecodeReg2(w) + 1]
    IN  /\ e.form \in {"R", "RI", "RR", "MOV_RI", "MOV_RR", "MOV_LD", "MOV_LDB"}
             => StrUpper(parts[2]) = r1
        /\ e.form \in {"MOV_ST", "MOV_STB"} => StrUpper(parts[3]) = r1
        /\ e.form \in {"RR", "MOV_RR"} => StrUpper(parts[3]) = r2
        /\ (e.form \in {"RI", "MOV_RI"} /\ IsNumeral(Tail(parts[3])))
             => parts[3] = Imm(DecodeValue(w))
        /\ (e.form = "J" /\ IsNumeral(parts[2])) => parts[2] = Dec(DecodeValue(w))
        /\ (e.form = "MOV_LD" /\ IsNumeral(SubSeq(parts[3], 2, Len(parts[3]) - 1)))
             => parts[3] = Mem(Dec(DecodeValue(w)))
        /\ (e.form = "MOV_ST" /\ IsNumeral(SubSeq(parts[2], 2, Len(parts[2]) - 1)))
             => parts[2] = Mem(Dec(DecodeValue(w)))
        /\ e.form = "MOV_LDB" => StrUpper(parts[3]) = BaseOff(r2, DecodeOffset(w))
        /\ e.form = "MOV_STB" => StrUpper(parts[2]) = BaseOff(r2, DecodeOffset(w))

\* C1: every word the extended assembler emits decodes, with the simulator's
\* shifts and masks, to the opcode and the operand fields that were encoded,
\* and these are the registers and numbers written in the source line.
C1_RoundTrip ==
    Assembled =>
      \A k \in 1..Len(asm_code) :
        /\ FieldsRecovered(EncodeState(InstrRows[k]), asm_code[k])
        /\ TextRecovered(EncodeState(InstrRows[k]), Tokens(InstrRows[k], 4), asm_code[k])

\* An assembled MOV ESP, [EBP+31]: every field at a non-zero value.
C1_Witness ==
    /\ Assembled
    /\ \E k \in 1..Len(asm_code) :
         /\ EncodeState(InstrRows[k]).form = "MOV_LDB"
         /\ DecodeReg1(asm_code[k]) = 7
         /\ DecodeReg2(asm_code[k]) = 6
         /\ DecodeOffset(asm_code[k]) = 31

\* The operation a mnemonic with its operand form names.
OperationNamed(mnemonic, parts, form) ==
    LET imm == Len(parts) >= 3 /\ CharAt(parts[3], 1) = "#" IN
    CASE mnemonic = Mn.HLT -> "HLT"    [] mnemonic = Mn.RET -> "RET"
      [] mnemonic = Mn.INP -> "INP"    [] mnemonic = Mn.OUT -> "OUT"
      [] mnemonic = Mn.INC -> "INC"    [] mnemonic = Mn.DEC -> "DEC"
      [] mnemonic = Mn.NOT -> "NOT"    [] mnemonic = Mn.PUSH -> "PUSH"
      [] mnemonic = Mn.POP -> "POP"    [] mnemonic = Mn.CALL -> "CALL"
      [] mnemonic = Mn.MUL -> "MUL"    [] mnemonic = Mn.DIV -> "DIV"
      [] mnemonic = Mn.XOR -> "XOR"    [] mnemonic = Mn.JMP -> "JMP"
      [] mnemonic \in {Mn.JE, Mn.JZ} -> "JE"
      [] mnemonic \in {Mn.JNE, Mn.JNZ} -> "JNE"
      [] mnemonic \in {Mn.JG, Mn.JNLE} -> "JG"
      [] mnemonic \in {Mn.JL, Mn.JNGE} -> "JL"
      [] mnemonic \in {Mn.JGE, Mn.JNL} -> "JGE"
      [] mnemonic \in {Mn.JLE, Mn.JNG} -> "JLE"
      [] mnemonic = Mn.ADD -> IF imm THEN "ADDI" ELSE "ADD"
      [] mnemonic = Mn.SUB -> IF imm THEN "SUBI" ELSE "SUB"
      [] mnemonic = Mn.CMP -> IF imm THEN "CMPI" ELSE "CMP"
      [] mnemonic = Mn.MOV -> form
      [] OTHER -> "none"

\* C2: the opcode of every word the extended assembler emits is dispatched by
\* the extended simulator to the operation that the line's mnemonic and
\* operand form name; so no two operations share an opcode.
C2_OpcodeAgreement ==
    Assembled =>
      \A k \in 1..Len(asm_code) :
        LET parts == Tokens(InstrRows[k], 4) IN
        Len(parts) > 0 =>
          SimOperation(DecodeOpcode(asm_code[k]))
            = OperationNamed(StrUpper(parts[1]), parts, EncodeState(InstrRows[k]).form)

\* An assembled MUL and the simulator's multiply.
C2_Witness ==
    /\ Assembled
    /\ \E k \in 1..Len(asm_code) :
         /\ StrUpper(Tokens(InstrRows[k], 4)[1]) = Mn.MUL
         /\ SimOperation(DecodeOpcode(asm_code[k])) = "MUL"

\* The text of a source line that is neither comment nor leading white space.
SrcText(line) == SkipSpace(CutAt(CutAt(line, {"\r", "\n"}), {";"}))
SrcDefinesLabel(line) == strchr(SrcText(line), ":") # 0
SrcLabel(line) == SubSeq(SrcText(line), 1, strchr(SrcText(line), ":") - 1)
\* What follows the label of a source line, or the whole text without one.
SrcInstruction(line) ==
    IF SrcDefinesLabel(line)
    THEN SkipSpace(Drop(SrcText(line), strchr(SrcText(line), ":")))
    ELSE SrcText(line)
SrcHoldsInstruction(line) == Len(SrcInstruction(line)) # 0
\* The instruction lines of the source file, in order.
SrcInstructionLines == SelectSeq(source.lines, SrcHoldsInstruction)
\* The number of instruction lines before line i of the source file.
WordsBefore(i) ==
    Cardinality({j \in 1..(i - 1) : SrcHoldsInstruction(source.lines[j])})
\* The lines of the source file that define a label defined nowhere else.
LabelLines ==
    {i \in 1..Len(source.lines) :
       /\ SrcDefinesLabel(source.lines[i])
       /\ \A j \in 1..Len(source.lines) :
            (j # i /\ SrcDefinesLabel(source.lines[j]))
              => SrcLabel(source.lines[j]) # SrcLabel(source.lines[i])}
SecondPassDone == source.readable /\ asm_pc \in {"write", "exit"}
\* Word k is a branch whose operand is the label that line i defines.
RefersTo(k, i) ==
    LET parts == Tokens(InstrRows[k], 4) IN
    /\ Len(parts) = 2
    /\ StrUpper(parts[1]) \in BranchMnemonics
    /\ parts[2] = SrcLabel(source.lines[i])

\* C3: once the first pass is over every label is recorded at the number of
\* instruction lines before its own line (a label-only line counts for nothing,
\* a label before an instruction gets that instruction's address), and every
\* emitted branch to a label that begins with a letter carries that address,
\* whether the branch stands before or after the label.
C3_LabelAddresses ==
    (source.readable /\ asm_pc \in {"pass2", "write", "exit"}) =>
      \A i \in LabelLines :
        /\ get_address_for_label(SrcLabel(source.lines[i])) = WordsBefore(i)
        /\ (Assembled /\ isalpha(CharAt(SrcLabel(source.lines[i]), 1))) =>
             \A k \in 1..Len(asm_code) :
               RefersTo(k, i) => DecodeValue(asm_code[k]) = WordsBefore(i)

\* A label on a line of its own after a comment line, recorded at address 1,
\* with an emitted branch to it before it and another after it.
C3_Witness ==
    /\ Assembled
    /\ \E i \in LabelLines :
         /\ WordsBefore(i) = 1
         /\ i = 3
         /\ ~SrcHoldsInstruction(source.lines[i])
         /\ \E k1, k2 \in 1..Len(asm_code) :
              /\ k1 <= WordsBefore(i) /\ RefersTo(k1, i)
              /\ k2 > WordsBefore(i) /\ RefersTo(k2, i)
              /\ DecodeValue(asm_code[k2]) = 1

\* The operand names a label: it is not a number, an immediate or a bracket.
NamesLabel(t) ==
    /\ Len(t) > 0
    /\ ~isdigit(t[1])
    /\ t[1] \notin {"-", "+", "#", "["}
LabelIsDefined(t) ==
    \E i \in 1..Len(source.lines) :
       SrcDefinesLabel(source.lines[i]) /\ SrcLabel(source.lines[i]) = t
\* The label operand of an instruction row, or the empty string.
LabelOperand(row) ==
    LET parts == Tokens(row, 4)
        inner(t) == SubSeq(t, 2, Len(t) - 1)
    IN  IF Len(parts) = 2 /\ StrUpper(parts[1]) \in BranchMnemonics /\ NamesLabel(parts[2])
          THEN parts[2]
        ELSE IF /\ Len(parts) = 3 /\ StrUpper(parts[1]) = Mn.MOV
                /\ get_register_code(parts[2]) # -1
                /\ CharAt(parts[3], 1) = "[" /\ strchr(parts[3], "+") = 0
                /\ NamesLabel(inner(parts[3]))
          THEN inner(parts[3])
        ELSE IF /\ Len(parts) = 3 /\ StrUpper(parts[1]) = Mn.MOV
                /\ get_register_code(parts[3]) # -1
                /\ CharAt(parts[2], 1) = "[" /\ strchr(parts[2], "+") = 0
                /\ NamesLabel(inner(parts[2]))
          THEN inner(parts[2])
        ELSE <<>>

\* C4: an instruction whose operand names a label is encoded with the address
\* recorded for that name when the label is defined, and is an encode error
\* when it is not, whatever the first character of the name.
C4_LabelOperand ==
    SecondPassDone =>
      \A r \in 1..Len(InstrRows) :
        LET t == LabelOperand(InstrRows[r])
            e == EncodeState(InstrRows[r])
        IN  Len(t) > 0 =>
              IF LabelIsDefined(t)
              THEN e.err = "none" /\ e.value = get_address_for_label(t)
              ELSE e.instruction = ERROR_SENTINEL

\* A defined label whose name does not begin with a letter is the operand of an
\* instruction that was assembled.
C4_Reached ==
    /\ Assembled
    /\ \E r \in 1..Len(InstrRows) :
         /\ LabelOperand(InstrRows[r]) = L_under
         /\ LabelIsDefined(L_under)

\* Some instruction row of the program is encoded as the error sentinel.
SomeLineFails ==
    \E i \in 1..Len(program_memory) :
       Len(program_memory[i]) # 0 /\ encode_instruction(program_memory[i]) = ERROR_SENTINEL
WriteSucceeds == out_file' = [exists |-> TRUE, words |-> asm_code]

\* C5: when some line fails to encode the second pass ends the run with exit
\* code 1 and the output file as it was; the output file changes only in the
\* write step, which is reached only when no line fails; and the write step
\* ends with exit code 0 exactly when the whole program was written.
C5_AllOrNothing ==
    [][ /\ (asm_pc = "pass2" /\ SomeLineFails)
           => (asm_pc' = "exit" /\ exit_code' = 1 /\ out_file' = out_file)
        /\ (out_file' # out_file) => (asm_pc = "write" /\ ~SomeLineFails)
        /\ asm_pc' = "write" => ~SomeLineFails
        /\ asm_pc = "write" => (exit_code' = 0 <=> WriteSucceeds)
        /\ exit_code' = 0 => asm_pc = "write" ]_vars

\* A run that failed in the second pass with an older binary at the output path.
C5_Witness ==
    /\ AssemblyFailed
    /\ SomeLineFails
    /\ exit_code = 1
    /\ out_file = OldFile

\* The line under test: the last line of a file that begins with the prelude.
HasTestLine == Len(source.lines) = Len(Prelude) + 1 /\ SubSeq(source.lines, 1, Len(Prelude)) = Prelude
TestLine == source.lines[Len(source.lines)]

\* Lines with a range-checked field at value v, over every other operand.
ImmediateLines(v) ==
    {Line2(m, r, Imm(v)) : m \in {Mn.MOV, Mn.ADD, Mn.SUB, Mn.CMP}, r \in GoodRegs}
AddressLines(v) ==
    {Line1(m, Dec(v)) : m \in BranchMnemonics}
    \cup {Line2(Mn.MOV, r, Mem(Dec(v))) : r \in GoodRegs}
    \cup {Line2(Mn.MOV, Mem(Dec(v)), r) : r \in GoodRegs}
OffsetLines(o) ==
    {Line2(Mn.MOV, r, BaseOff(b, o)) : r \in GoodRegs, b \in GoodRegs}
    \cup {Line2(Mn.MOV, BaseOff(b, o), r) : r \in GoodRegs, b \in GoodRegs}

\* C6: with every combination of the other operands the extended assembler
\* accepts an immediate of 255, an address of 255 and an offset of 31, and
\* rejects the value one greater and the value -1.
C6_FieldLimits ==
    (SecondPassDone /\ HasTestLine) =>
      /\ TestLine \in ImmediateLines(255) \cup AddressLines(255) \cup OffsetLines(31)
           => Assembled
      /\ TestLine \in ImmediateLines(256) \cup AddressLines(256) \cup OffsetLines(32)
           => AssemblyFailed
      /\ TestLine \in ImmediateLines(-1) \cup AddressLines(-1) \cup OffsetLines(-1)
           => AssemblyFailed

\* The number of operands each mnemonic takes.
OperandCount(m) ==
    IF m \in {Mn.HLT, Mn.RET} THEN 0
    ELSE IF m \in OneRegMnemonics \cup BranchMnemonics THEN 1
    ELSE 2
\* mnemonic m followed by n operands EAX
WithOperands(m, n) ==
    CASE n = 0 -> m
      [] n = 1 -> Line1(m, AsmRegNames[1])
      [] n = 2 -> Line2(m, AsmRegNames[1], AsmRegNames[1])
      [] n = 3 -> Line2(m, AsmRegNames[1], AsmRegNames[1]) \o <<" ">> \o AsmRegNames[1]
WrongArityLines ==
    {WithOperands(m, n) : m \in AllMnemonics, n \in 0..3} \
      {WithOperands(m, OperandCount(m)) : m \in AllMnemonics}
UnknownMnemonicLines == {WithOperands(<<"N","O","P">>, n) : n \in 0..3}
BadRegisterLines ==
    {Line1(m, R_bad) : m \in OneRegMnemonics}
    \cup {Line2(m, R_bad, AsmRegNames[2]) : m \in AluMnemonics}
    \cup {Line2(m, AsmRegNames[1], R_bad) : m \in AluMnemonics \cup {Mn.MOV}}
    \cup {Line2(Mn.MOV, R_bad, AsmRegNames[1]),
          Line2(Mn.MOV, R_bad, Imm(0)),
          Line2(Mn.MOV, R_bad, Mem(Dec(0))),
          Line2(Mn.MOV, Mem(Dec(0)), R_bad),
          Line2(Mn.MOV, AsmRegNames[1], BaseOff(R_bad, 0)),
          Line2(Mn.MOV, BaseOff(R_bad, 0), AsmRegNames[1]),
          Line2(Mn.MOV, BaseOff(AsmRegNames[7], 0), R_bad)}
OutOfRangeLines ==
    {Line2(Mn.MOV, AsmRegNames[1], Imm(256)), Line1(Mn.JMP, Dec(256)),
     Line2(Mn.MOV, AsmRegNames[1], Mem(Dec(256))),
     Line2(Mn.MOV, AsmRegNames[1], BaseOff(AsmRegNames[7], 32))}
MemToMemLines == {Line2(Mn.MOV, a, b) : a \in MemToks, b \in MemToks}

\* C7: a line with an unknown mnemonic, with the wrong number of operands for
\* its mnemonic (HLT and RET included), with an invalid register name, with an
\* out-of-range value or with two memory operands makes assembly fail.
C7_DispatchFailures ==
    (SecondPassDone /\ HasTestLine) =>
      (TestLine \in WrongArityLines \cup UnknownMnemonicLines \cup BadRegisterLines
                    \cup OutOfRangeLines \cup MemToMemLines
         => /\ AssemblyFailed
            /\ encode_instruction(TestLine) = ERROR_SENTINEL)

\* The shape of a MOV operand, from its text alone.
Shape(t) ==
    IF StrUpper(t) \in Range(register_names) THEN "reg"
    ELSE IF CharAt(t, 1) = "#" THEN "imm"
    ELSE IF CharAt(t, 1) = "[" /\ strchr(t, "+") # 0 THEN "base+off"
    ELSE IF CharAt(t, 1) = "[" THEN "addr"
    ELSE "other"
\* The opcode of each accepted pair of shapes (part_002:34-42).
MovOpcode(dest, src) ==
    CASE dest = "reg" /\ src = "imm" -> 6          \* 00110
      [] dest = "reg" /\ src = "reg" -> 18         \* 10010
      [] dest = "reg" /\ src = "addr" -> 7         \* 00111
      [] dest = "addr" /\ src = "reg" -> 8         \* 01000
      [] dest = "reg" /\ src = "base+off" -> 15    \* 01111
      [] dest = "base+off" /\ src = "reg" -> 31    \* 11111
      [] OTHER -> -1
IsMemShape(sh) == sh \in {"addr", "base+off"}
\* The test line is a MOV with two operands.
TestIsMov ==
    /\ HasTestLine
    /\ Len(Tokens(TestLine, 4)) = 3
    /\ StrUpper(Tokens(TestLine, 4)[1]) = Mn.MOV
TestDest == Shape(Tokens(TestLine, 4)[2])
TestSrc == Shape(Tokens(TestLine, 4)[3])

\* C8: an assembled MOV has one of the six accepted pairs of operand shapes and
\* the opcode of that pair; a MOV between two memory operands, from an
\* immediate to memory or into an immediate fails to assemble.
C8_MovShapes ==
    (SecondPassDone /\ TestIsMov) =>
      /\ Assembled =>
           /\ MovOpcode(TestDest, TestSrc) # -1
           /\ DecodeOpcode(asm_code[Len(asm_code)]) = MovOpcode(TestDest, TestSrc)
      /\ ( \/ IsMemShape(TestDest) /\ IsMemShape(TestSrc)
           \/ IsMemShape(TestDest) /\ TestSrc = "imm"
           \/ TestDest = "imm" ) => AssemblyFailed

\* An assembled store through a direct address.
C8_Witness ==
    /\ Assembled
    /\ TestIsMov
    /\ TestDest = "addr"
    /\ TestSrc = "reg"
    /\ DecodeOpcode(asm_code[Len(asm_code)]) = 8

\* C9: after a successful assembly the program holds one word for each
\* instruction line of the source file, in the order of the lines.
C9_OneWordPerLine ==
    Assembled =>
      /\ Len(asm_code) = Len(SrcInstructionLines)
      /\ \A k \in 1..Len(asm_code) :
           k <= Len(SrcInstructionLines) =>
             asm_code[k] = encode_instruction(SrcInstruction(SrcInstructionLines[k]))

----------------------------------------------------------------------------
(* Properties of the extended simulator *)

\* The instruction the running simulator executes next.
Fetched == machine_code[pc + 1]
\* The flag condition of each branch opcode (part_002:99-107).
BranchCondition(opcode) ==
    CASE opcode = 24 -> TRUE                              \* JMP
      [] opcode = 25 -> flags.ZF # 0                      \* JE / JZ
      [] opcode = 26 -> flags.ZF = 0                      \* JNE / JNZ
      [] opcode = 27 -> flags.ZF = 0 /\ flags.SF = 0      \* JG
      [] opcode = 28 -> flags.SF # 0                      \* JL
      [] opcode = 29 -> flags.SF = 0                      \* JGE
      [] opcode = 30 -> flags.ZF # 0 \/ flags.SF # 0      \* JLE

\* C10: a step that executes a branch sets PC to the branch's target when its
\* flag condition holds and to PC + 1 when it does not, and leaves every
\* register, memory word and flag as it was.
C10_Branches ==
    [][ (sim_state = "Running" /\ (Fetched \div 2048) \in 24..30) =>
          /\ pc' = IF BranchCondition(Fetched \div 2048)
                   THEN Fetched % 256 ELSE pc + 1
          /\ registers' = registers
          /\ memory' = memory
          /\ flags' = flags ]_vars

\* A JG that was taken to a target other than the next instruction, after a
\* comparison that left both flags clear.
C10_Witness ==
    /\ last.valid
    /\ last.word \div 2048 = 27
    /\ flags.ZF = 0 /\ flags.SF = 0
    /\ pc = last.word % 256
    /\ pc # last.pc + 1
    /\ last.pc = 2

\* The simulator is about to execute an instruction with this opcode.
Executes(opcodes) == sim_state = "Running" /\ (Fetched \div 2048) \in opcodes
\* The step ran the instruction to its end.
Completed == sim_state' \notin {"Crashed", "Hung"}
FetchedReg1 == (Fetched \div 256) % 8
FetchedReg2 == (Fetched \div 32) % 8
\* The second operand of the fetched CMP: a register (opcode 23) or an
\* immediate (opcode 21).
CmpOperand == IF Fetched \div 2048 = 23 THEN registers[FetchedReg2] ELSE Fetched % 256

\* C11: a completed CMP of equal operands leaves ZF set and SF clear, and a
\* completed CMP of a smaller with a larger operand leaves SF set and ZF clear,
\* for all register values.
C11_CmpFlags ==
    [][ (Executes({21, 23}) /\ Completed) =>
          /\ registers[FetchedReg1] = CmpOperand => (flags'.ZF = 1 /\ flags'.SF = 0)
          /\ registers[FetchedReg1] < CmpOperand => (flags'.SF = 1 /\ flags'.ZF = 0) ]_vars

\* A CMP of the smallest int with 1 was completed.
C11_Reached ==
    /\ last.valid
    /\ last.word \div 2048 = 23
    /\ sim_state = "Running"
    /\ registers[0] = INT_MIN
    /\ registers[1] = 1

\* C12: a step changes ZF or SF only when it executes CMP, a step that executes
\* CMP changes no register and no memory word, and a step that executes any
\* other instruction leaves both flags as they were.
C12_FlagsFrame ==
    [][ /\ flags' # flags => Executes({21, 23})
        /\ Executes({21, 23}) => (registers' = registers /\ memory' = memory)
        /\ (sim_state = "Running" /\ ~Executes({21, 23})) => flags' = flags ]_vars

\* An arithmetic instruction left a negative result in EAX and SF is still
\* clear.
C12_Witness ==
    /\ last.valid
    /\ last.word \div 2048 \in {16, 17, 1, 9, 10, 3, 22}
    /\ registers[0] < 0
    /\ flags.SF = 0

\* The machine state after PUSH r and then POP r, executed from this state.
AfterPush(r) == ExecuteOn(MachineState, Word(11, r, 0, 0), pc)
AfterPushPop(r) == ExecuteOn(AfterPush(r), Word(12, r, 0, 0), pc + 1)
RoundTrips(r) ==
    /\ AfterPushPop(r).registers[r] = registers[r]
    /\ AfterPushPop(r).registers[ESP] = registers[ESP]

\* C13 as stated: from every state of a run PUSH r then POP r leaves r and ESP
\* as they were, for every register r.
C13_PushPop == sim_state = "Running" => \A r \in 0..7 : RoundTrips(r)

\* C13: from every state of a run in which ESP is in 1..256, so that the pushed
\* word lies in memory, PUSH r then POP r leaves r and ESP as they were, for
\* every register r, without any overflow.
C13_PushPopInMemory ==
    (sim_state = "Running" /\ registers[ESP] \in 1..MEMORY_SIZE) =>
      \A r \in 0..7 :
        /\ RoundTrips(r)
        /\ ~AfterPush(r).ub
        /\ ~AfterPushPop(r).ub

\* A PUSH EAX and a POP EAX were executed inside a call, EAX holds 9 as before
\* and a further PUSH EAX would store it at address 254.
C13_Witness ==
    /\ sim_state = "Running"
    /\ last.valid /\ last.word = Word(12, 0, 0, 0) /\ last.pc = 5
    /\ registers[0] = 9
    /\ registers[ESP] = 255
    /\ memory[254] = 9
    /\ AfterPush(0).registers[ESP] = 254
    /\ AfterPushPop(0).registers[0] = 9

\* Targets of the calls and instructions of the callee: MOV EAX,EAX; INC EAX;
\* MOV [ESP+0],EAX; MOV [255],EAX; PUSH EAX.
CallTargets == {0, 7, 200}
CalleeWords == {Word(18, 0, 0, 0), Word(9, 0, 0, 0), Word(31, 0, ESP, 0),
                Word(8, 0, 0, 255), Word(11, 0, 0, 0)}
AfterCall(t) == ExecuteOn(MachineState, Word(13, 0, 0, t), pc)
AfterCallee(t, w) == ExecuteOn(AfterCall(t), w, t)
AfterRet(t, w) == ExecuteOn(AfterCallee(t, w), Word(14, 0, 0, 0), t + 1)
\* CALL t at pc: ESP one less, pc + 1 at the new top of stack, PC at t.
CallEffect(t) ==
    /\ AfterCall(t).registers[ESP] = registers[ESP] - 1
    /\ AfterCall(t).registers[ESP] \in 0..(MEMORY_SIZE - 1)
    /\ AfterCall(t).memory[AfterCall(t).registers[ESP]] = pc + 1
    /\ AfterCall(t).next_pc = t
\* RET after the callee's instruction w: PC at pc + 1, ESP as before the CALL.
RetEffect(t, w) ==
    /\ AfterRet(t, w).next_pc = pc + 1
    /\ AfterRet(t, w).registers[ESP] = registers[ESP]

\* C14 as stated: from every state of a run CALL t has its effect, and a RET
\* executed when ESP has again the value it had after the CALL returns to
\* pc + 1 with ESP as before the CALL.
C14_CallRet ==
    (sim_state = "Running" /\ registers[ESP] > INT_MIN) =>
      \A t \in CallTargets :
        /\ CallEffect(t)
        /\ \A w \in CalleeWords :
             AfterCallee(t, w).registers[ESP] = AfterCall(t).registers[ESP]
               => RetEffect(t, w)

\* C14: from every state of a run in which ESP is in 1..256 CALL t has its
\* effect, and a RET executed when ESP has again the value it had after the CALL
\* and the word stored there is still pc + 1 returns to pc + 1 with ESP as
\* before the CALL.
C14_CallRetIntact ==
    (sim_state = "Running" /\ registers[ESP] \in 1..MEMORY_SIZE) =>
      \A t \in CallTargets :
        /\ CallEffect(t)
        /\ ~AfterCall(t).ub
        /\ \A w \in CalleeWords :
             ( /\ AfterCallee(t, w).registers[ESP] = AfterCall(t).registers[ESP]
               /\ AfterCallee(t, w).memory[AfterCall(t).registers[ESP]] = pc + 1 )
               => (RetEffect(t, w) /\ ~AfterRet(t, w).ub)

\* The RET at address 6 was executed with ESP as the CALL at address 1 left it
\* and returned to address 2 with ESP back at 256.
C14_Witness ==
    /\ last.valid /\ last.word = Word(14, 0, 0, 0) /\ last.pc = 6
    /\ memory[255] = 2
    /\ pc = 2
    /\ registers[ESP] = 256
    /\ sim_state = "Running"
    /\ CallEffect(7)

\* C15: a DIV whose divisor register holds 0 ends the run as Faulted and leaves
\* every register, every memory word and both flags as they were; nothing
\* changes after the fault, so no further instruction executes.
C15_DivByZero ==
    [][ /\ (Executes({2}) /\ registers[FetchedReg2] = 0) =>
             /\ sim_state' = "Faulted"
             /\ registers' = registers
             /\ memory' = memory
             /\ flags' = flags
        /\ sim_state = "Faulted" => UNCHANGED vars ]_vars

\* The run faulted on DIV EAX, EBX with EBX = 0 and EAX still holds the most
\* negative value.
C15_Witness ==
    /\ sim_state = "Faulted"
    /\ last.valid /\ last.word = Word(2, 0, 1, 0)
    /\ registers[1] = 0
    /\ registers[0] = INT_MIN

\* The second operand of the arithmetic instruction fetched.
ArithOperand ==
    CASE Fetched \div 2048 \in {9, 10} -> 1
      [] Fetched \div 2048 \in {19, 20} -> Fetched % 256
      [] OTHER -> registers[FetchedReg2]
\* Its result modulo the register width; the quotient truncated toward zero.
ArithWrapped ==
    CASE Fetched \div 2048 = 1 -> IntMul(registers[FetchedReg1], ArithOperand)
      [] Fetched \div 2048 = 2 -> CDiv(registers[FetchedReg1], ArithOperand)
      [] Fetched \div 2048 \in {9, 16, 19} -> IntAdd(registers[FetchedReg1], ArithOperand)
      [] OTHER -> IntSub(registers[FetchedReg1], ArithOperand)

\* C16 as stated: MUL, DIV with a divisor other than 0, INC, DEC, ADD and SUB
\* never end the run abnormally and store the result wrapped modulo the
\* register width, the quotient truncated toward zero.
C16_NoTrap ==
    [][ (Executes({1, 2, 9, 10, 16, 17, 19, 20})
         /\ ~(Fetched \div 2048 = 2 /\ registers[FetchedReg2] = 0)) =>
           /\ sim_state' \notin {"Crashed", "Faulted"}
           /\ registers'[FetchedReg1] = ArithWrapped ]_vars

\* DIV EAX, EBX with the most negative value in EAX and -1 in EBX ended the
\* run abnormally.
C16_Reached ==
    /\ sim_state = "Crashed"
    /\ last.valid /\ last.word = Word(2, 0, 1, 0)
    /\ registers[0] = INT_MIN
    /\ registers[1] = -1

\* INC r then DEC r executed from this state.
AfterInc(r) == ExecuteOn(MachineState, Word(9, r, 0, 0), pc)
AfterIncDec(r) == ExecuteOn(AfterInc(r), Word(10, r, 0, 0), pc + 1)

AccessOp == SimOperation(Fetched \div 2048)
AccessBase == registers[FetchedReg2]
AccessIsRead == AccessOp \in {"MOV_LD", "MOV_LDB", "POP", "RET"}
AccessOverflows ==
    CASE AccessOp \in {"MOV_LDB", "MOV_STB"} -> AddOverflows(AccessBase, Fetched % 32)
      [] AccessOp \in {"PUSH", "CALL"} -> SubOverflows(registers[ESP], 1)
      [] AccessOp \in {"POP", "RET"} -> AddOverflows(registers[ESP], 1)
      [] OTHER -> FALSE
AccessAddress ==
    CASE AccessOp \in {"MOV_LD", "MOV_ST"} -> Fetched % 256
      [] AccessOp \in {"MOV_LDB", "MOV_STB"} -> IntAdd(AccessBase, Fetched % 32)
      [] AccessOp \in {"PUSH", "CALL"} -> IntSub(registers[ESP], 1)
      [] OTHER -> registers[ESP]
OutOfRangeAccess ==
    /\ Executes({7, 8, 11, 12, 13, 14, 15, 31})
    /\ AccessAddress \notin 0..(MEMORY_SIZE - 1)
\* The access is recovered: memory unchanged by a write, 0 read, run goes on.
Recovered ==
    /\ sim_state' \notin {"Crashed", "Faulted", "Halted", "Hung"}
    /\ memory' = memory
    /\ AccessOp \in {"MOV_LD", "MOV_LDB"} => registers'[FetchedReg1] = 0
    /\ (AccessOp = "POP" /\ FetchedReg1 # ESP) => registers'[FetchedReg1] = 0
    /\ AccessOp = "RET" => pc' = 0

C18_OutOfRangeNoOverflow == [][ (OutOfRangeAccess /\ ~AccessOverflows) => Recovered ]_vars

C18_Recovered ==
    /\ sim_state = "Running"
    /\ last.valid /\ last.word = Word(12, 0, 0, 0)
    /\ registers[ESP] = 258
    /\ registers[0] = 0

\* The ways the run of the extended simulator may end.
EndsAsListed ==
    \/ sim_state' = "Halted" /\ Fetched \div 2048 = 0
    \/ sim_state' = "Faulted" /\ SimOperation(Fetched \div 2048) = "unknown"
    \/ sim_state' = "Faulted" /\ Fetched \div 2048 = 2 /\ registers[FetchedReg2] = 0
    \/ sim_state' = "Finished" /\ pc' \notin 0..(program_instruction_count - 1)
RunEnded == sim_state \in {"Halted", "Faulted", "Finished", "Crashed"}

\* C19 as stated: an instruction is fetched only while 0 <= PC < N; the run
\* ends only by HLT, an unknown opcode, a zero divisor or PC leaving 0..N-1;
\* after the end no register, memory word or flag changes.
C19_RunEnds ==
    [][ /\ sim_state = "Running" => pc \in 0..(program_instruction_count - 1)
        /\ (sim_state = "Running" /\ sim_state' \notin {"Running", "Hung"}) => EndsAsListed
        /\ RunEnded => (registers' = registers /\ memory' = memory /\ flags' = flags) ]_vars

\* SUB EAX, EBX with the most negative value in EAX and 1 in EBX ended the run
\* abnormally.
C19_Reached ==
    /\ sim_state = "Crashed"
    /\ last.valid /\ last.word = Word(17, 0, 1, 0)
    /\ registers[0] = INT_MIN
    /\ registers[1] = 1

\* C20 as stated: when execution begins PC is 0, memory and flags are 0, ESP is
\* 256 and every other register is 0.
C20_StartState ==
    [][ sim_state = "Loaded" =>
          /\ pc' = 0
          /\ \A a \in 0..(MEMORY_SIZE - 1) : memory'[a] = 0
          /\ flags' = [ZF |-> 0, SF |-> 0]
          /\ registers'[ESP] = MEMORY_SIZE
          /\ \A r \in (0..7) \ {ESP} : registers'[r] = 0 ]_vars

\* C20: when execution begins PC is 0, memory and flags are 0, ESP and EBP are
\* both 256 and every other register is 0.
C20_StartStateEbp ==
    [][ sim_state = "Loaded" =>
          /\ pc' = 0
          /\ \A a \in 0..(MEMORY_SIZE - 1) : memory'[a] = 0
          /\ flags' = [ZF |-> 0, SF |-> 0]
          /\ registers'[ESP] = MEMORY_SIZE
          /\ registers'[EBP] = MEMORY_SIZE
          /\ \A r \in (0..7) \ {ESP, EBP} : registers'[r] = 0 ]_vars

\* Execution has begun and no instruction has been executed yet: EBP is 256.
C20_Witness ==
    /\ sim_state = "Running"
    /\ ~last.valid
    /\ pc = 0
    /\ registers[EBP] = MEMORY_SIZE
    /\ registers[ESP] = MEMORY_SIZE

----------------------------------------------------------------------------
(* The example program of the extended README, assembled and then run *)

\* The simulator is started on the binary the assembler has written
\* (part_000:48-56: main reads the file name and calls load_binary_program).
SimLaunch ==
    /\ sim_state = "Off"
    /\ asm_pc = "exit"
    /\ exit_code = 0
    /\ sim_state' = "Load"
    /\ UNCHANGED <<asm_vars, registers, flags, memory, machine_code,
                   program_instruction_count, pc, last, stdin, sim_exit, console>>

\* Largest argument given to the factorial program.
MaxArg == 5

Indented(l) == <<" ", " ">> \o l
Commented(l) == l \o <<" ", " ", ";", " ", "n", "o", "t", "e">>
L_main == <<"m","a","i","n">>
L_factorial == <<"f","a","c","t","o","r","i","a","l">>
L_end_factorial == <<"e","n","d","_">> \o L_factorial
R_EAX == AsmRegNames[1]
R_EBX == AsmRegNames[2]
R_EBP == AsmRegNames[7]
R_ESP == AsmRegNames[8]

\* part_002:134-175 with the argument n, its blank and comment-only lines and a
\* comment after every instruction.
FactorialProgram(n) ==
    << <<";", " ", "m", "a", "i", "n">>,
       L_main \o <<":">>,
       Indented(Commented(Line2(Mn.MOV, R_EAX, Imm(n)))),
       Indented(Commented(Line1(Mn.PUSH, R_EAX))),
       Indented(Commented(Line1(Mn.CALL, L_factorial))),
       Indented(Commented(Line1(Mn.POP, R_EAX))),
       Indented(Commented(Line1(Mn.OUT, R_EAX))),
       Indented(Commented(Mn.HLT)),
       << >>,
       L_factorial \o <<":">>,
       Indented(Commented(Line1(Mn.PUSH, R_EBP))),
       Indented(Commented(Line2(Mn.MOV, R_EBP, R_ESP))),
       << >>,
       Indented(Commented(Line2(Mn.MOV, R_EAX, BaseOff(R_EBP, 2)))),
       Indented(Commented(Line2(Mn.CMP, R_EAX, Imm(1)))),
       Indented(Commented(Line1(Mn.JLE, L_end_factorial))),
       << >>,
       Indented(Commented(Line1(Mn.DEC, R_EAX))),
       Indented(Commented(Line1(Mn.PUSH, R_EAX))),
       Indented(Commented(Line1(Mn.CALL, L_factorial))),
       Indented(Commented(Line1(Mn.POP, R_EBX))),
       << >>,
       Indented(Commented(Line2(Mn.MOV, R_EBX, BaseOff(R_EBP, 2)))),
       Indented(Commented(Line2(Mn.MUL, R_EAX, R_EBX))),
       << >>,
       L_end_factorial \o <<":">>,
       Indented(Commented(Line2(Mn.MOV, R_ESP, R_EBP))),
       Indented(Commented(Line1(Mn.POP, R_EBP))),
       Indented(Commented(Mn.RET)) >>
ExampleSources == {[readable |-> TRUE, lines |-> FactorialProgram(n)] : n \in 0..MaxArg}
ReadmeExample == [readable |-> TRUE, lines |-> FactorialProgram(5)]

ExampleInit ==
    /\ source \in ExampleSources
    /\ out_file = AbsentFile
    /\ asm_pc = "load"
    /\ AsmIdle
    /\ SimIdle
    /\ sim_state = "Off"

ExampleNext ==
    \/ AsmLoad \/ AsmBuildSymbolTable \/ AsmAssemble \/ AsmWrite
    \/ SimLaunch \/ SimLoad \/ SimStart \/ SimStep

SpecExample == ExampleInit /\ [][ExampleNext]_vars

\* The run of the simulator is over.
RunOver == sim_state \in {"Halted", "Faulted", "Finished", "Crashed", "Hung"}

\* C21 as stated: the run of the assembled README example ends at HLT having
\* printed exactly the value 120, with ESP back at 256.
C21_Factorial ==
    (source = ReadmeExample /\ RunOver) =>
       /\ sim_state = "Halted"
       /\ console = <<120>>
       /\ registers[ESP] = MEMORY_SIZE

\* The run of the assembled README example ended at HLT having printed 5, the
\* argument that POP EAX loaded over the result.
C21_Reached ==
    /\ source = ReadmeExample
    /\ sim_state = "Halted"
    /\ console = <<5>>
    /\ registers[ESP] = MEMORY_SIZE

----------------------------------------------------------------------------
(* Simple assembler: src/assembler.c lines 1-316 (registers A, B, C) *)

SMn == [ DMP |-> <<"D","M","P">>, CLRM |-> <<"C","L","R","M">>,
         CLRR |-> <<"C","L","R","R">>, SET |-> <<"S","E","T">>,
         LDA |-> <<"L","D","A">>, STA |-> <<"S","T","A">>,
         JP |-> <<"J","P">>, JN |-> <<"J","N">> ]

SimpleRegNames == << <<"A">>, <<"B">>, <<"C">> >>

\* assembler.c:189-195: strcmp against "A", "B", "C"
simple_get_register_code(reg_name) ==
    IF \E k \in 1..3 : SimpleRegNames[k] = reg_name
    THEN (CHOOSE k \in 1..3 : SimpleRegNames[k] = reg_name) - 1
    ELSE -1

\* The opcode each mnemonic is given, assembler.c:219-287
SimpleOpcode(m) ==
    CASE m = Mn.HLT -> 0      [] m = SMn.DMP -> 1
      [] m = SMn.CLRM -> 2    [] m = SMn.CLRR -> 3
      [] m = Mn.INP -> 4      [] m = Mn.OUT -> 5
      [] m = SMn.SET -> 6     [] m = SMn.LDA -> 7
      [] m = SMn.STA -> 8     [] m = Mn.INC -> 9
      [] m = Mn.DEC -> 10     [] m = Mn.ADD -> 16
      [] m = Mn.SUB -> 17     [] m = Mn.MOV -> 18
      [] m = Mn.JMP -> 24     [] m = Mn.JZ -> 25
      [] m = Mn.JNZ -> 26     [] m = SMn.JP -> 27
      [] m = SMn.JN -> 28

\* The word with reg1 placed at bit 8.
SimplePack_Reg1At8(opcode, reg1_code, reg2_code, value) ==
    BitOr(BitOr(Shl(opcode, 11), Shl(reg1_code, 8)), BitOr(Shl(reg2_code, 7), value))

\* (opcode << 11) | (reg1_code << 9) | (reg2_code << 7) | value
SimplePack(opcode, reg1_code, reg2_code, value) ==
    BitOr(BitOr(Shl(opcode, 11), Shl(reg1_code, 9)), BitOr(Shl(reg2_code, 7), value))

\* assembler.c:209-296: the dispatch on the upper-cased mnemonic
SimpleEncodeParts(opcode_str, parts) ==
    LET part_count == Len(parts)
        opcode == SimpleOpcode(opcode_str)
        reg1_code == simple_get_register_code(parts[2])
        reg2_code == simple_get_register_code(parts[3])
        target == ResolveAddress(parts[part_count])
        immediate == atoi(Tail(parts[3]))
    IN  IF opcode_str \in {Mn.HLT, SMn.DMP, SMn.CLRM, SMn.CLRR}
        THEN Encoded("Z", SimplePack(opcode, 0, 0, 0), opcode, 0, 0, 0, 0)
        ELSE IF opcode_str \in {Mn.ADD, Mn.SUB, Mn.MOV}
        THEN IF part_count # 3 THEN EncodeError("arity", 0)
             ELSE IF reg1_code = -1 \/ reg2_code = -1 THEN EncodeError("register", opcode)
             ELSE Encoded("RR", SimplePack(opcode, reg1_code, reg2_code, 0),
                          opcode, reg1_code, reg2_code, 0, 0)
        ELSE IF opcode_str \in {Mn.INP, Mn.OUT, Mn.INC, Mn.DEC}
        THEN IF part_count # 2 THEN EncodeError("arity", 0)
             ELSE IF reg1_code = -1 THEN EncodeError("register", opcode)
             ELSE Encoded("R", SimplePack(opcode, reg1_code, 0, 0), opcode, reg1_code, 0, 0, 0)
        ELSE IF opcode_str = SMn.SET
        THEN IF part_count # 3 THEN EncodeError("arity", 0)
             ELSE IF CharAt(parts[3], 1) # "#" THEN EncodeError("immediate", opcode)
             ELSE IF reg1_code = -1 THEN EncodeError("register", opcode)
             ELSE IF immediate < 0 \/ immediate > 511 THEN EncodeError("range", opcode)
             ELSE Encoded("RI", SimplePack(opcode, reg1_code, 0, immediate),
                          opcode, reg1_code, 0, immediate, 0)
        ELSE IF opcode_str \in {SMn.LDA, SMn.STA, Mn.JZ, Mn.JNZ, SMn.JP, SMn.JN}
        THEN IF part_count # 3 THEN EncodeError("arity", 0)
             ELSE IF reg1_code = -1 THEN EncodeError("register", opcode)
             ELSE IF target = -1 THEN EncodeError("label", opcode)
             ELSE IF target < 0 \/ target > 511 THEN EncodeError("range", opcode)
             ELSE Encoded("RA", SimplePack(opcode, reg1_code, 0, target),
                          opcode, reg1_code, 0, target, 0)
        ELSE IF opcode_str = Mn.JMP
        THEN IF part_count # 2 THEN EncodeError("arity", 0)
             ELSE IF target = -1 THEN EncodeError("label", opcode)
             ELSE IF target < 0 \/ target > 511 THEN EncodeError("range", opcode)
             ELSE Encoded("J", SimplePack(opcode, 0, 0, target), opcode, 0, 0, target, 0)
        ELSE EncodeError("mnemonic", 0)

\* assembler.c:196-208: the line is split into at most four tokens
simple_EncodeState(line) ==
    LET parts == Tokens(Take(line, MAX_LINE_LENGTH - 1), 4)
    IN  IF Len(parts) = 0 THEN Encoded("empty", 0, 0, 0, 0, 0, 0)
        ELSE SimpleEncodeParts(StrUpper(parts[1]), parts)

simple_encode_instruction(line) == simple_EncodeState(line).instruction

\* assembler.c:98-134, the same loop as the extended load_program
simple_load_program(file) == load_program(file)

\* Every label recorded at the row after its own.
simple_build_symbol_table_NextRow(rows) ==
    LET RowHasLabel(i) == HasLabel(rows[i])
        label_rows == SelectSeq([i \in 1..Len(rows) |-> i], RowHasLabel)
        stored == IF Len(label_rows) < MAX_LABELS THEN Len(label_rows) ELSE MAX_LABELS
    IN  [ table |-> [k \in 1..stored |->
                       [name |-> LabelName(rows[label_rows[k]]),
                        address |-> label_rows[k]]],
          lines |-> [i \in 1..Len(rows) |-> StrippedRow(rows[i])],
          warned |-> [k \in 1..stored |-> "max_labels"] ]

\* assembler.c:136-164.  A label is recorded with the index of its row; the
\* warning is printed in the branch that stores it; a label found when the
\* table is full is dropped without a message.
simple_build_symbol_table(rows) ==
    LET RowHasLabel(i) == HasLabel(rows[i])
        label_rows == SelectSeq([i \in 1..Len(rows) |-> i], RowHasLabel)
        stored == IF Len(label_rows) < MAX_LABELS THEN Len(label_rows) ELSE MAX_LABELS
    IN  [ table |-> [k \in 1..stored |->
                       [name |-> LabelName(rows[label_rows[k]]),
                        address |-> label_rows[k] - 1]],
          lines |-> [i \in 1..Len(rows) |-> StrippedRow(rows[i])],
          warned |-> [k \in 1..stored |-> "max_labels"] ]

\* assembler.c:175-187.  Every row is encoded, an empty one as the word 0; the
\* loop returns -1 at the first row whose word is the sentinel.
simple_assemble(rows) ==
    LET IsBad(i) == simple_encode_instruction(rows[i]) = ERROR_SENTINEL
        failed == \E i \in 1..Len(rows) : IsBad(i)
        stop == IF failed
                THEN CHOOSE i \in 1..Len(rows) : IsBad(i) /\ \A j \in 1..(i - 1) : ~IsBad(j)
                ELSE Len(rows) + 1
    IN  [ code |-> [k \in 1..(stop - 1) |-> simple_encode_instruction(rows[k])],
          failed |-> failed,
          err |-> IF failed THEN simple_EncodeState(rows[stop]).err ELSE "none" ]

\* main, assembler.c:64-69
SimpleAsmLoad ==
    /\ asm_pc = "load"
    /\ IF source.readable
       THEN /\ program_memory' = simple_load_program(source)
            /\ program_line_count' = Len(simple_load_program(source))
            /\ asm_pc' = "pass1"
            /\ UNCHANGED <<exit_code, asm_stderr>>
       ELSE /\ exit_code' = 1
            /\ asm_pc' = "exit"
            /\ asm_stderr' = Append(asm_stderr, "load_failed")
            /\ UNCHANGED <<program_memory, program_line_count>>
    /\ UNCHANGED <<source, symbol_table, label_count, asm_code, instruction_count,
                   out_file, sim_vars>>

\* main, assembler.c:72-74
SimpleAsmBuildSymbolTable ==
    /\ asm_pc = "pass1"
    /\ LET st == simple_build_symbol_table(program_memory) IN
         /\ symbol_table' = st.table
         /\ label_count' = Len(st.table)
         /\ program_memory' = st.lines
         /\ asm_stderr' = asm_stderr \o st.warned
    /\ asm_pc' = "pass2"
    /\ UNCHANGED <<source, program_line_count, asm_code, instruction_count,
                   out_file, exit_code, sim_vars>>

\* main, assembler.c:77-83
SimpleAsmAssemble ==
    /\ asm_pc = "pass2"
    /\ LET st == simple_assemble(program_memory) IN
         /\ asm_code' = st.code
         /\ IF st.failed
            THEN /\ exit_code' = 1
                 /\ asm_pc' = "exit"
                 /\ asm_stderr' = asm_stderr \o <<st.err, "assembly_failed">>
                 /\ instruction_count' = -1
            ELSE /\ instruction_count' = Len(st.code)
                 /\ asm_pc' = "write"
                 /\ UNCHANGED <<exit_code, asm_stderr>>
    /\ UNCHANGED <<source, program_memory, program_line_count, symbol_table,
                   label_count, out_file, sim_vars>>


----------------------------------------------------------------------------
(* Simple simulator: src/unnamed/part_001 (registers A, B, C; 64 words) *)

SIMPLE_MEMORY_SIZE == 64

\* part_001:156-161
simple_get_register_value(regs, reg_code) == IF reg_code \in 0..2 THEN regs[reg_code] ELSE 0
\* part_001:163-167
simple_set_register_value(regs, reg_code, value) ==
    IF reg_code \in 0..2 THEN [regs EXCEPT ![reg_code] = value] ELSE regs
\* part_001:169-175
simple_write_memory(mem, address, data) ==
    IF address >= 0 /\ address < SIMPLE_MEMORY_SIZE THEN [mem EXCEPT ![address] = data] ELSE mem
\* part_001:177-181
simple_read_memory(mem, address) ==
    IF address >= 0 /\ address < SIMPLE_MEMORY_SIZE THEN mem[address] ELSE 0

\* Decoding, part_001:101-105
SimpleDecodeOpcode(instruction) == Shr(instruction, 11)
\* reg1 taken from bits 9-8.
SimpleDecodeReg1_Bit8(instruction) == BitAnd(Shr(instruction, 8), 3)
SimpleDecodeReg1(instruction) == BitAnd(Shr(instruction, 9), 3)
SimpleDecodeReg2(instruction) == BitAnd(Shr(instruction, 7), 3)
SimpleDecodeValue(instruction) == BitAnd(instruction, 511)

\* The operation each case label of the switch carries out, part_001:108-146
SimpleOperation(opcode) ==
    CASE opcode = 0 -> "HLT"     [] opcode = 1 -> "DMP"
      [] opcode = 2 -> "CLRM"    [] opcode = 3 -> "CLRR"
      [] opcode = 4 -> "INP"     [] opcode = 5 -> "OUT"
      [] opcode = 6 -> "SET"     [] opcode = 7 -> "LDA"
      [] opcode = 8 -> "STA"     [] opcode = 9 -> "INC"
      [] opcode = 10 -> "DEC"    [] opcode = 16 -> "ADD"
      [] opcode = 17 -> "SUB"    [] opcode = 18 -> "MOV"
      [] opcode = 24 -> "JMP"    [] opcode = 25 -> "JZ"
      [] opcode = 26 -> "JNZ"    [] opcode = 27 -> "JP"
      [] opcode = 28 -> "JN"     [] OTHER -> "unknown"

\* part_001:99-151, on the machine state m
simple_ExecuteOn(m, instruction, pc_) ==
    LET op == SimpleOperation(SimpleDecodeOpcode(instruction))
        reg1 == SimpleDecodeReg1(instruction)
        reg2 == SimpleDecodeReg2(instruction)
        value == SimpleDecodeValue(instruction)
        addr == SimpleDecodeValue(instruction)
        r1 == simple_get_register_value(m.registers, reg1)
        r2 == simple_get_register_value(m.registers, reg2)
        Set(x) == [m EXCEPT !.registers = simple_set_register_value(m.registers, reg1, x)]
        Jump(taken) == IF taken THEN [m EXCEPT !.next_pc = addr] ELSE m
    IN  CASE op = "HLT" -> [m EXCEPT !.next_pc = -1, !.end = "hlt"]
          [] op = "DMP" -> m
          [] op = "CLRM" -> [m EXCEPT !.memory = [a \in 0..(SIMPLE_MEMORY_SIZE - 1) |-> 0]]
          [] op = "CLRR" -> [m EXCEPT !.registers = [r \in 0..2 |-> 0]]
          [] op = "INP" ->
               IF Len(m.stdin) = 0 THEN [m EXCEPT !.hang = TRUE]
               ELSE IF Head(m.stdin).numeric
               THEN [Set(Head(m.stdin).value) EXCEPT !.stdin = Tail(m.stdin),
                                                     !.hang = ~Head(m.stdin).nl]
               ELSE IF Head(m.stdin).nl
               THEN [Set(0) EXCEPT !.stdin = Tail(m.stdin)]
               ELSE [m EXCEPT !.stdin = Tail(m.stdin), !.hang = TRUE]
          [] op = "OUT" -> [m EXCEPT !.console = Append(m.console, r1)]
          [] op = "SET" -> Set(value)
          [] op = "LDA" -> Set(simple_read_memory(m.memory, addr))
          [] op = "STA" -> [m EXCEPT !.memory = simple_write_memory(m.memory, addr, r1)]
          [] op = "INC" -> [Set(IntAdd(r1, 1)) EXCEPT !.ub = AddOverflows(r1, 1)]
          [] op = "DEC" -> [Set(IntSub(r1, 1)) EXCEPT !.ub = SubOverflows(r1, 1)]
          [] op = "ADD" -> [Set(IntAdd(r1, r2)) EXCEPT !.ub = AddOverflows(r1, r2)]
          [] op = "SUB" -> [Set(IntSub(r1, r2)) EXCEPT !.ub = SubOverflows(r1, r2)]
          [] op = "MOV" -> Set(r2)
          [] op = "JMP" -> Jump(TRUE)
          [] op = "JZ" -> Jump(r1 = 0)
          [] op = "JNZ" -> Jump(r1 # 0)
          [] op = "JP" -> Jump(r1 > 0)
          [] op = "JN" -> Jump(r1 < 0)
          [] OTHER -> [m EXCEPT !.next_pc = -1, !.end = "unknown_opcode"]

simple_execute_instruction(instruction, pc_) == simple_ExecuteOn(MachineState, instruction, pc_)

\* run_program, part_001:86-87
SimpleSimStart ==
    /\ sim_state = "Loaded"
    /\ pc' = 0
    /\ memory' = [a \in 0..(SIMPLE_MEMORY_SIZE - 1) |-> 0]
    /\ sim_state' = LoopState(0, "none")
    /\ sim_exit' = IF LoopState(0, "none") = "Running" THEN sim_exit ELSE 0
    /\ UNCHANGED <<registers, flags, machine_code, program_instruction_count, last,
                   stdin, console, asm_vars>>

\* run_program, part_001:89-92: one turn of the loop.  A signed overflow is
\* undefined: the build either wraps or traps.
SimpleSimStep ==
    /\ sim_state = "Running"
    /\ LET instruction == machine_code[pc + 1]
           m == simple_execute_instruction(instruction, pc)
       IN  /\ last' = [valid |-> TRUE, pc |-> pc, word |-> instruction]
           /\ \/ /\ ~m.hang
                 /\ registers' = m.registers
                 /\ memory' = m.memory
                 /\ stdin' = m.stdin
                 /\ console' = m.console
                 /\ pc' = m.next_pc
                 /\ sim_state' = LoopState(m.next_pc, m.end)
                 /\ sim_exit' = IF LoopState(m.next_pc, m.end) = "Running"
                                THEN sim_exit ELSE 0
              \/ /\ m.ub
                 /\ sim_state' = "Crashed"
                 /\ UNCHANGED <<registers, memory, stdin, console, pc, sim_exit>>
              \/ /\ m.hang
                 /\ sim_state' = "Hung"
                 /\ registers' = m.registers
                 /\ stdin' = m.stdin
                 /\ UNCHANGED <<memory, console, pc, sim_exit>>
    /\ UNCHANGED <<flags, machine_code, program_instruction_count, asm_vars>>

----------------------------------------------------------------------------
(* Source files given to the simple assembler, and the runs of their binaries *)

\* Largest value written in the simple sources (one past the 9-bit field).
SimpleMaxOperand == 512

R_A == SimpleRegNames[1]
R_B == SimpleRegNames[2]
R_C == SimpleRegNames[3]
L_loop == <<"l","o","o","p">>

\* SET A,#5 / SET B,#3 / ADD A,B / OUT A / HLT
ScenarioA ==
    << Line2(SMn.SET, R_A, Imm(5)), Line2(SMn.SET, R_B, Imm(3)),
       Line2(Mn.ADD, R_A, R_B), Line1(Mn.OUT, R_A), Mn.HLT >>
\* SET C,#3 / loop: OUT C / DEC C / JNZ C,loop / OUT C
ScenarioB ==
    << Line2(SMn.SET, R_C, Imm(3)),
       L_loop \o <<":", " ">> \o Line1(Mn.OUT, R_C),
       Line1(Mn.DEC, R_C),
       Line2(Mn.JNZ, R_C, L_loop),
       Line1(Mn.OUT, R_C) >>
\* INP A / OUT A / INP B / OUT B
InputProgram ==
    << Line1(Mn.INP, R_A), Line1(Mn.OUT, R_A), Line1(Mn.INP, R_B), Line1(Mn.OUT, R_B) >>

\* lab is defined at row 1 by a line of its own and _l at row 2 before an
\* instruction; the line under test is the file's last line, at row 3.
SimplePrelude == << Mn.HLT, <<"l","a","b",":">>, <<"_","l",":"," ","D","M","P">> >>

SimpleRegToks == {R_A, R_B, R_C, <<"a">>, <<"D">>}
SimpleProbe == {0, 1, 63, 64, 255, 256, 511, SimpleMaxOperand, -1}
SimpleAddrToks(vs) == {Dec(v) : v \in vs} \cup {L_lab, L_under, L_none}
SimpleTwoOperand == {SMn.LDA, SMn.STA, Mn.JZ, Mn.JNZ, SMn.JP, SMn.JN}
SimpleMnemonics ==
    {Mn.HLT, SMn.DMP, SMn.CLRM, SMn.CLRR, Mn.ADD, Mn.SUB, Mn.MOV, Mn.INP, Mn.OUT,
     Mn.INC, Mn.DEC, SMn.SET, Mn.JMP} \cup SimpleTwoOperand
\* Every mnemonic with every register and probe value, every mnemonic with
\* zero to three operands, and each value field over its whole range.
SimpleTestLines ==
    {Line2(m, a, b) : m \in {Mn.ADD, Mn.SUB, Mn.MOV}, a \in SimpleRegToks, b \in SimpleRegToks}
    \cup {Line1(m, a) : m \in {Mn.INP, Mn.OUT, Mn.INC, Mn.DEC}, a \in SimpleRegToks}
    \cup {Line2(SMn.SET, a, Imm(v)) : a \in SimpleRegToks, v \in SimpleProbe}
    \cup {Line2(SMn.SET, R_A, Dec(5))}
    \cup {Line2(m, a, t) : m \in SimpleTwoOperand, a \in SimpleRegToks,
                           t \in SimpleAddrToks(SimpleProbe)}
    \cup {Line1(Mn.JMP, t) : t \in SimpleAddrToks(0..SimpleMaxOperand)}
    \cup {Line2(SMn.SET, R_B, Imm(v)) : v \in 0..SimpleMaxOperand}
    \cup {Line2(SMn.LDA, R_C, Dec(v)) : v \in 0..SimpleMaxOperand}
    \cup {Line2(Mn.JNZ, R_B, Dec(v)) : v \in 0..SimpleMaxOperand}
    \cup UNION {{m, Line1(m, R_A), Line2(m, R_A, R_B), Line2(m, R_A, R_B) \o <<" ">> \o R_C}
                : m \in SimpleMnemonics \cup {<<"N","O","P">>, <<"s","e","t">>}}

\* Programs of instruction lines, label-only lines, a label before an
\* instruction, a comment-only line and references to both labels.
SimpleLineKinds == { Line2(SMn.SET, R_A, Imm(1)),
                     <<"a",":">>,
                     <<"b",":"," ">> \o Line2(SMn.SET, R_B, Imm(2)),
                     <<" ",";","c">>,
                     Line1(Mn.JMP, <<"a">>),
                     Line2(Mn.JZ, R_A, <<"b">>) }
SimpleLabelPrograms == UNION {[1..n -> SimpleLineKinds] : n \in 1..MaxProgLines}

\* The files of many labels given to the simple assembler.
SimpleManyLabels == ManyLabelSources

\* SET A, #7 / STA A, 64 / LDA A, 100 / OUT A / HLT
OutOfRangeProgram ==
    << Line2(SMn.SET, R_A, Imm(7)), Line2(SMn.STA, R_A, Dec(SIMPLE_MEMORY_SIZE)),
       Line2(SMn.LDA, R_A, Dec(100)), Line1(Mn.OUT, R_A), Mn.HLT >>

\* A source file with the console input of the run of its binary.
SimpleRuns ==
    {[lines |-> SimplePrelude \o <<l>>, stdin |-> << >>] : l \in SimpleTestLines}
    \cup {[lines |-> p, stdin |-> << >>]
          : p \in SimpleLabelPrograms \cup SimpleManyLabels
                  \cup {ScenarioA, ScenarioB, OutOfRangeProgram}}
    \cup {[lines |-> InputProgram, stdin |-> i] : i \in SimInputs}

SimpleInit ==
    /\ \/ \E run \in SimpleRuns :
            /\ source = [readable |-> TRUE, lines |-> run.lines]
            /\ stdin = run.stdin
       \/ source = [readable |-> FALSE, lines |-> <<>>] /\ stdin = << >>
    /\ out_file = AbsentFile
    /\ asm_pc = "load"
    /\ AsmIdle
    /\ registers = [r \in 0..2 |-> 0]
    /\ flags = [ZF |-> 0, SF |-> 0]
    /\ memory = [a \in 0..(SIMPLE_MEMORY_SIZE - 1) |-> 0]
    /\ machine_code = <<>>
    /\ program_instruction_count = 0
    /\ pc = 0
    /\ last = NoInstruction
    /\ sim_exit = -1
    /\ console = <<>>
    /\ sim_state = "Off"

\* write_binary_file (assembler.c:301-316), the start of the simulator and
\* load_binary_program (part_001:37-83) are the code of the extended programs.
SimpleNext ==
    \/ SimpleAsmLoad \/ SimpleAsmBuildSymbolTable \/ SimpleAsmAssemble \/ AsmWrite
    \/ SimLaunch \/ SimLoad \/ SimpleSimStart \/ SimpleSimStep

SpecSimple == SimpleInit /\ [][SimpleNext]_vars

----------------------------------------------------------------------------
(* The scenario programs of the simple profile, assembled and then run *)

\* Largest start value of the count-down program.
MaxCount == 3

\* SET C,#n / loop: OUT C / DEC C / JNZ C,loop / OUT C
CountDown(n) ==
    << Line2(SMn.SET, R_C, Imm(n)),
       L_loop \o <<":", " ">> \o Line1(Mn.OUT, R_C),
       Line1(Mn.DEC, R_C),
       Line2(Mn.JNZ, R_C, L_loop),
       Line1(Mn.OUT, R_C) >>

ScenarioRuns ==
    {[lines |-> p, stdin |-> << >>] : p \in {ScenarioA} \cup {CountDown(n) : n \in 1..MaxCount}}
    \cup {[lines |-> InputProgram, stdin |-> i] : i \in SimInputs}

ScenarioInit ==
    /\ \E run \in ScenarioRuns :
         /\ source = [readable |-> TRUE, lines |-> run.lines]
         /\ stdin = run.stdin
    /\ out_file = AbsentFile
    /\ asm_pc = "load"
    /\ AsmIdle
    /\ registers = [r \in 0..2 |-> 0]
    /\ flags = [ZF |-> 0, SF |-> 0]
    /\ memory = [a \in 0..(SIMPLE_MEMORY_SIZE - 1) |-> 0]
    /\ machine_code = <<>>
    /\ program_instruction_count = 0
    /\ pc = 0
    /\ last = NoInstruction
    /\ sim_exit = -1
    /\ console = <<>>
    /\ sim_state = "Off"

\* run_program's loop goes on as long as its condition holds.
SpecScenario == ScenarioInit /\ [][SimpleNext]_vars /\ WF_vars(SimpleSimStep)

IsPrefix(p, q) == Len(p) <= Len(q) /\ SubSeq(q, 1, Len(p)) = p
RunsScenarioA == source.lines = ScenarioA
RunsScenarioB == source.lines = ScenarioB

\* C22: scenario A assembles to five words; its run prints nothing but the
\* value 8, and once running it reaches HLT, where the output is exactly 8,
\* A = 8 and B = 3.
C22_ScenarioA ==
    /\ []((RunsScenarioA /\ SecondPassDone) => instruction_count = 5)
    /\ []((RunsScenarioA /\ sim_state = "Running") => IsPrefix(console, <<8>>))
    /\ []((RunsScenarioA /\ RunOver) =>
            /\ sim_state = "Halted"
            /\ console = <<8>>
            /\ registers[0] = 8
            /\ registers[1] = 3)
    /\ ((RunsScenarioA /\ sim_state = "Running") ~> (sim_state = "Halted"))

\* The run of scenario A halted at the HLT at address 4 having printed 8.
C22_Witness ==
    /\ RunsScenarioA
    /\ sim_state = "Halted"
    /\ last.valid /\ last.pc = 4 /\ last.word = 0
    /\ console = <<8>>
    /\ registers[0] = 8 /\ registers[1] = 3

\* C23: scenario B assembles to five words; its run prints a prefix of 3, 2, 1,
\* 0, and once running it ends by PC leaving the program, having printed
\* exactly 3, 2, 1, 0.
C23_ScenarioB ==
    /\ []((RunsScenarioB /\ SecondPassDone) => instruction_count = 5)
    /\ []((RunsScenarioB /\ sim_state = "Running") => IsPrefix(console, <<3, 2, 1, 0>>))
    /\ []((RunsScenarioB /\ RunOver) =>
            /\ sim_state = "Finished"
            /\ pc = 5
            /\ console = <<3, 2, 1, 0>>)
    /\ ((RunsScenarioB /\ sim_state = "Running") ~> (sim_state = "Finished"))

\* The run of scenario B ended after the OUT C at address 4, having printed
\* 3, 2, 1, 0.
C23_Witness ==
    /\ RunsScenarioB
    /\ sim_state = "Finished"
    /\ last.valid /\ last.pc = 4
    /\ console = <<3, 2, 1, 0>>
    /\ registers[2] = 0

----------------------------------------------------------------------------
(* Properties of the simple assembler *)

\* C24 as stated: in the simple assembler every label is recorded at the number
\* of instruction lines before its own line, and the binary holds one word per
\* instruction line, none for a line that is only a label.
C24_SimpleLabels ==
    (source.lines \in SimpleLabelPrograms /\ asm_pc \in {"pass2", "write", "exit"}) =>
      /\ \A i \in LabelLines :
           get_address_for_label(SrcLabel(source.lines[i])) = WordsBefore(i)
      /\ Assembled => Len(asm_code) = Len(SrcInstructionLines)

\* SET A,#1 / a: / JMP a assembled to three words, the second one the word 0
\* emitted for the label-only line.
C24_Reached ==
    /\ source.lines = << Line2(SMn.SET, R_A, Imm(1)), <<"a", ":">>, Line1(Mn.JMP, <<"a">>) >>
    /\ Assembled
    /\ Len(asm_code) = 3
    /\ asm_code[2] = 0
    /\ get_address_for_label(<<"a">>) = 1

\* The decoded fields of word w are the fields the simple encode_instruction packed.
SimpleFieldsRecovered(e, w) ==
    /\ SimpleDecodeOpcode(w) = e.opcode
    /\ e.form \in {"R", "RR", "RI", "RA"} => SimpleDecodeReg1(w) = e.reg1
    /\ e.form = "RR" => SimpleDecodeReg2(w) = e.reg2
    /\ e.form \in {"RI", "RA", "J"} => SimpleDecodeValue(w) = e.value

\* The decoded fields of word w, written out, are the operands of the line.
SimpleTextRecovered(e, parts, w) ==
    /\ e.form \in {"R", "RR", "RI", "RA"}
         => (SimpleDecodeReg1(w) \in 0..2 /\ parts[2] = SimpleRegNames[SimpleDecodeReg1(w) + 1])
    /\ e.form = "RR"
         => (SimpleDecodeReg2(w) \in 0..2 /\ parts[3] = SimpleRegNames[SimpleDecodeReg2(w) + 1])
    /\ (e.form = "RI" /\ IsNumeral(Tail(parts[3]))) => parts[3] = Imm(SimpleDecodeValue(w))
    /\ (e.form = "RA" /\ IsNumeral(parts[3])) => parts[3] = Dec(SimpleDecodeValue(w))
    /\ (e.form = "J" /\ IsNumeral(parts[2])) => parts[2] = Dec(SimpleDecodeValue(w))

\* The operation a mnemonic of the simple assembler names.
SimpleOperationNamed(mnemonic) ==
    CASE mnemonic = Mn.HLT -> "HLT"      [] mnemonic = SMn.DMP -> "DMP"
      [] mnemonic = SMn.CLRM -> "CLRM"   [] mnemonic = SMn.CLRR -> "CLRR"
      [] mnemonic = Mn.INP -> "INP"      [] mnemonic = Mn.OUT -> "OUT"
      [] mnemonic = SMn.SET -> "SET"     [] mnemonic = SMn.LDA -> "LDA"
      [] mnemonic = SMn.STA -> "STA"     [] mnemonic = Mn.INC -> "INC"
      [] mnemonic = Mn.DEC -> "DEC"      [] mnemonic = Mn.ADD -> "ADD"
      [] mnemonic = Mn.SUB -> "SUB"      [] mnemonic = Mn.MOV -> "MOV"
      [] mnemonic = Mn.JMP -> "JMP"      [] mnemonic = Mn.JZ -> "JZ"
      [] mnemonic = Mn.JNZ -> "JNZ"      [] mnemonic = SMn.JP -> "JP"
      [] mnemonic = SMn.JN -> "JN"       [] OTHER -> "none"

\* C25: every word the simple assembler emits for an instruction decodes, with
\* the simple simulator's shifts and masks, to the opcode and the operand
\* fields that were encoded, these are the registers and numbers written in
\* the line, and the simulator dispatches the opcode to the operation the
\* mnemonic names.
C25_SimpleRoundTrip ==
    Assembled =>
      \A k \in 1..Len(asm_code) :
        LET parts == Tokens(program_memory[k], 4) IN
        Len(parts) > 0 =>
          /\ SimpleFieldsRecovered(simple_EncodeState(program_memory[k]), asm_code[k])
          /\ SimpleTextRecovered(simple_EncodeState(program_memory[k]), parts, asm_code[k])
          /\ SimpleOperation(SimpleDecodeOpcode(asm_code[k])) = SimpleOperationNamed(StrUpper(parts[1]))

\* An assembled STA C, 511: the register and the address at their largest.
C25_Witness ==
    /\ Assembled
    /\ \E k \in 1..Len(asm_code) :
         /\ Tokens(program_memory[k], 4) = << SMn.STA, R_C, Dec(511) >>
         /\ SimpleDecodeOpcode(asm_code[k]) = 8
         /\ SimpleDecodeReg1(asm_code[k]) = 2
         /\ SimpleDecodeValue(asm_code[k]) = 511

----------------------------------------------------------------------------
(* Loading and console input of the extended simulator *)

FileWords == Len(out_file.words)
LoadedCount == IF FileWords < PROGRAM_SIZE THEN FileWords ELSE PROGRAM_SIZE

\* C26: load_binary_program loads the first min(n, 256) words of a file of n
\* words in file order and succeeds also when n > 256; the load fails, with
\* exit code 1 and nothing executed afterwards, only when the file cannot be
\* opened or read.
C26_Load ==
    [][ /\ (sim_state = "Load" /\ out_file.exists) =>
             /\ sim_state' = "Loaded"
             /\ program_instruction_count' = LoadedCount
             /\ Len(machine_code') = LoadedCount
             /\ \A k \in 1..LoadedCount : machine_code'[k] = out_file.words[k]
             /\ sim_exit' # 1
        /\ (sim_state = "Load" /\ ~out_file.exists) =>
             /\ sim_state' = "LoadFailed"
             /\ sim_exit' = 1
        /\ sim_state' = "LoadFailed" => (sim_state = "Load" /\ ~out_file.exists)
        /\ sim_state = "LoadFailed" => UNCHANGED vars ]_vars

\* A file of 257 words was loaded as its first 256 words and ran to the end of
\* them: the OUT EAX past the capacity printed nothing.
C26_Witness ==
    /\ FileWords = PROGRAM_SIZE + 1
    /\ program_instruction_count = PROGRAM_SIZE
    /\ machine_code[PROGRAM_SIZE] = out_file.words[PROGRAM_SIZE]
    /\ sim_state = "Finished"
    /\ pc = PROGRAM_SIZE
    /\ registers[0] = 255
    /\ console = << >>

\* The next instruction is an INP and the next line of input is not a number.
InpOfText ==
    /\ sim_state = "Running"
    /\ SimOperation(DecodeOpcode(machine_code[pc + 1])) = "INP"
    /\ Len(stdin) > 0
    /\ ~Head(stdin).numeric

\* The effects the specification gives to an INP of a non-numeric line.
InpRecovers ==
    /\ registers' = set_register_value(registers, DecodeReg1(machine_code[pc + 1]), 0)
    /\ stdin' = Tail(stdin)
    /\ memory' = memory
    /\ flags' = flags
    /\ pc' = pc + 1
    /\ sim_state' \in {"Running", "Finished"}

\* C27: INP with a non-numeric input line sets the target register to 0,
\* discards the line so that the next INP reads the following line, changes no
\* other register, memory word or flag, continues at PC+1 and never halts or
\* faults the simulator.
C27_NonNumericInput == [][InpOfText => InpRecovers]_vars

\* The same for the non-numeric lines that end with a newline.
C27_TerminatedLine == [][(InpOfText /\ Head(stdin).nl) => InpRecovers]_vars

\* INP EBX read a non-numeric line: EBX went from 5 to 0, SF and memory[3]
\* kept their values, and the next INP read the 7 of the following line.
C27_Recovered ==
    /\ sim_state = "Finished"
    /\ console = <<0, 7>>
    /\ flags.SF = 1
    /\ memory[3] = 5
    /\ stdin = << >>

\* INP EBX met a last line that is not a number and has no newline: the
\* simulator is stuck in the INP at address 3 with EBX still 5 (the state in
\* which an INP at the end of the input is stuck as well).
C27_Reached ==
    /\ sim_state = "Hung"
    /\ pc = 3
    /\ registers[1] = 5
    /\ stdin = << >>

----------------------------------------------------------------------------
(* The symbol table at its capacity *)

\* The rows of the source file that define a label, in file order.
LabelDefRows ==
    LET rows == load_program(source)
        RowHasLabel(i) == HasLabel(rows[i])
    IN  [k \in DOMAIN SelectSeq([i \in 1..Len(rows) |-> i], RowHasLabel) |->
            rows[SelectSeq([i \in 1..Len(rows) |-> i], RowHasLabel)[k]]]
LabelsKept == IF Len(LabelDefRows) < MAX_LABELS THEN Len(LabelDefRows) ELSE MAX_LABELS
MaxLabelWarnings == Cardinality({i \in DOMAIN asm_stderr : asm_stderr[i] = "max_labels"})

\* C28: when the symbol table holds 64 labels a further label definition is
\* ignored and assembly continues: no stored label is overwritten, the
\* instruction of the line is still assembled, and the warning "maximum number
\* of labels reached" is printed once for each ignored label and never for a
\* stored one.
C28_MaxLabels ==
    (source.lines \in ManyLabelSources /\ asm_pc \in {"pass2", "write", "exit"}) =>
      /\ label_count = LabelsKept
      /\ \A k \in 1..LabelsKept : symbol_table[k].name = LabelName(LabelDefRows[k])
      /\ MaxLabelWarnings = Len(LabelDefRows) - LabelsKept
      /\ (asm_pc = "exit" /\ exit_code = 0) => Len(out_file.words) = Len(source.lines)

\* A file of 65 label definitions was assembled: 64 labels are stored, 66
\* words are written, and the warning was printed 64 times.
C28_Reached ==
    /\ Len(LabelDefRows) = MAX_LABELS + 1
    /\ asm_pc = "exit"
    /\ exit_code = 0
    /\ label_count = MAX_LABELS
    /\ Len(out_file.words) = MAX_LABELS + 2
    /\ MaxLabelWarnings = MAX_LABELS

\* The same file assembled with one warning, for the label that was ignored.
C28_OneWarning ==
    /\ Len(LabelDefRows) = MAX_LABELS + 1
    /\ asm_pc = "exit"
    /\ exit_code = 0
    /\ label_count = MAX_LABELS
    /\ Len(out_file.words) = MAX_LABELS + 2
    /\ MaxLabelWarnings = 1

----------------------------------------------------------------------------
(* Labels defined more than once *)

\* The first line of the source file that defines this label.
FirstDefinition(name) ==
    CHOOSE i \in 1..Len(source.lines) :
      /\ SrcDefinesLabel(source.lines[i]) /\ SrcLabel(source.lines[i]) = name
      /\ \A j \in 1..(i - 1) :
           ~(SrcDefinesLabel(source.lines[j]) /\ SrcLabel(source.lines[j]) = name)
IsDefined(name) ==
    \E i \in 1..Len(source.lines) :
      SrcDefinesLabel(source.lines[i]) /\ SrcLabel(source.lines[i]) = name
DefinedTwice(name) ==
    \E i, j \in 1..Len(source.lines) :
      /\ i # j
      /\ SrcDefinesLabel(source.lines[i]) /\ SrcLabel(source.lines[i]) = name
      /\ SrcDefinesLabel(source.lines[j]) /\ SrcLabel(source.lines[j]) = name
\* The label a branch line of the label programs refers to.
IsBranchLine(instr) == Len(instr) > 0 /\ instr[1] = "J"
BranchLabel(instr) == Drop(instr, strchr(instr, " "))
AllReferencesDefined ==
    \A k \in 1..Len(SrcInstructionLines) :
      IsBranchLine(SrcInstruction(SrcInstructionLines[k]))
        => IsDefined(BranchLabel(SrcInstruction(SrcInstructionLines[k])))

\* C29: when a label is defined more than once, every reference to it, before
\* or after its definitions, resolves to the address of the first definition,
\* and the duplicate raises no warning and no error: both passes print nothing
\* and the binary is written (the only messages left are those of a failed
\* write of the output file).
C29_Duplicates ==
    (source.lines \in LabelPrograms /\ asm_pc \in {"pass2", "write", "exit"}) =>
      /\ \A i \in 1..Len(source.lines) :
           SrcDefinesLabel(source.lines[i]) =>
             get_address_for_label(SrcLabel(source.lines[i]))
               = WordsBefore(FirstDefinition(SrcLabel(source.lines[i])))
      /\ Assembled =>
           \A k \in 1..Len(asm_code) :
             (/\ k <= Len(SrcInstructionLines)
              /\ IsBranchLine(SrcInstruction(SrcInstructionLines[k]))) =>
               asm_code[k] % 256 =
                 WordsBefore(FirstDefinition(BranchLabel(SrcInstruction(SrcInstructionLines[k]))))
      /\ AllReferencesDefined =>
           /\ asm_pc \in {"pass2", "write"} => asm_stderr = << >>
           /\ asm_pc \in {"write", "exit"} => instruction_count >= 0
           /\ \A i \in DOMAIN asm_stderr :
                asm_stderr[i] \in {"open_failed", "short_write", "write_failed"}

\* JMP a / a: / INC EAX / a: assembled without a message: the JMP written
\* before both definitions of a holds the address 1 of the first one, not the
\* address 2 of the second.
C29_Witness ==
    /\ source.lines = << <<"J","M","P"," ","a">>, <<"a",":">>,
                         <<"I","N","C"," ","E","A","X">>, <<"a",":">> >>
    /\ DefinedTwice(<<"a">>)
    /\ asm_pc = "exit"
    /\ exit_code = 0
    /\ asm_stderr = << >>
    /\ label_count = 2
    /\ symbol_table[2].address = 2
    /\ asm_code[1] % 256 = 1

----------------------------------------------------------------------------
(* The base+offset examples of the README *)

\* The word emitted for the line under test.
TestWord == asm_code[Len(asm_code)]

\* C30: both base+offset MOV forms assemble with the operands of the README's
\* examples: MOV EAX, [EBP+4] to the load opcode 01111 and MOV [EBP-8], ECX to
\* the store opcode 11111, each with the written base register and offset.
C30_ReadmeBaseOffset ==
    (SecondPassDone /\ HasTestLine) =>
      /\ TestLine = ReadmeLoad =>
           /\ Assembled
           /\ TestWord = Word(15, 0, 0, 0) + 6 * 32 + 4
      /\ TestLine = ReadmeStore =>
           /\ Assembled
           /\ DecodeOpcode(TestWord) = 31
           /\ DecodeReg1(TestWord) = 2
           /\ DecodeReg2(TestWord) = 6

\* The load example alone.
C30_ReadmeLoad ==
    (SecondPassDone /\ HasTestLine /\ TestLine = ReadmeLoad) =>
      /\ Assembled
      /\ TestWord = Word(15, 0, 0, 0) + 6 * 32 + 4

\* MOV [EBP-8], ECX was rejected as a store to the undefined label EBP-8.
C30_Reached ==
    /\ HasTestLine
    /\ TestLine = ReadmeStore
    /\ AssemblyFailed
    /\ encode_instruction(ReadmeStore) = ERROR_SENTINEL
    /\ out_file = AbsentFile

\* MOV EAX, [EBP+4] was assembled.
C30_LoadAssembled ==
    /\ HasTestLine
    /\ TestLine = ReadmeLoad
    /\ asm_pc = "exit"
    /\ exit_code = 0

----------------------------------------------------------------------------
(* Addresses of the simple profile *)

\* C31: every LDA or STA word the simple assembler emits carries an address
\* of the simple simulator's memory, 0..MEMORY_SIZE-1: an address outside
\* that range is rejected at assembly time.
C31_AddressInRange ==
    Assembled =>
      \A k \in 1..Len(asm_code) :
        SimpleDecodeOpcode(asm_code[k]) \in {7, 8} =>
          SimpleDecodeValue(asm_code[k]) \in 0..(SIMPLE_MEMORY_SIZE - 1)

\* SET A, #7 / STA A, 64 / LDA A, 100 / OUT A / HLT was assembled and run: the
\* store to address 64 changed no memory word and the load from address 100
\* gave 0.
C31_Reached ==
    /\ source.lines = OutOfRangeProgram
    /\ sim_state = "Halted"
    /\ Len(machine_code) = Len(OutOfRangeProgram)
    /\ machine_code[2] = SimplePack(8, 0, 0, SIMPLE_MEMORY_SIZE)
    /\ machine_code[3] = SimplePack(7, 0, 0, 100)
    /\ console = <<0>>
    /\ \A a \in 0..(SIMPLE_MEMORY_SIZE - 1) : memory[a] = 0

----------------------------------------------------------------------------
(* Text interpreter: src/main.c *)

\* main.c:10-11
INTERP_MEMORY_SIZE == 64
INTERP_PROGRAM_SIZE == 64

\* main.c:63-87
interp_read_memory(mem, address) ==
    IF address >= 0 /\ address < INTERP_MEMORY_SIZE THEN mem[address] ELSE 0
interp_write_memory(mem, address, data) ==
    IF address >= 0 /\ address < INTERP_MEMORY_SIZE THEN [mem EXCEPT ![address] = data] ELSE mem

\* main.c:119-145: a line is cut at its line end and loses its leading white
\* space; an empty line and a line that starts with ';' take no slot of
\* program_memory.  (Lines are shorter than MAX_LINE_LENGTH.)
InterpTrimmed(line) == SkipSpace(CutAt(line, {"\r", "\n"}))
InterpIsStored(line) == Len(InterpTrimmed(line)) # 0 /\ InterpTrimmed(line)[1] # ";"
\* The loader gives slot i to file line i, skipped or not.
interp_load_program_KeepsSlots(file) ==
    LET kept == Take(file.lines, INTERP_PROGRAM_SIZE)
    IN  [i \in 1..Len(kept) |-> IF InterpIsStored(kept[i]) THEN InterpTrimmed(kept[i]) ELSE << >>]
\* main.c:109-160
interp_load_program(file) ==
    LET kept == Take(SelectSeq(file.lines, InterpIsStored), INTERP_PROGRAM_SIZE)
    IN  [i \in 1..Len(kept) |-> InterpTrimmed(kept[i])]

\* main.c:169-194: the names are A, B and C, in upper case only; another name
\* reads as 0 and is not written.
InterpRegNames == << <<"A">>, <<"B">>, <<"C">> >>
InterpIsReg(reg_name) == reg_name \in Range(InterpRegNames)
InterpRegIndex(reg_name) == (CHOOSE k \in 1..3 : InterpRegNames[k] = reg_name) - 1
interp_get_register_value(regs, reg_name) ==
    IF InterpIsReg(reg_name) THEN regs[InterpRegIndex(reg_name)] ELSE 0
interp_set_register_value(regs, reg_name, value) ==
    IF InterpIsReg(reg_name) THEN [regs EXCEPT ![InterpRegIndex(reg_name)] = value] ELSE regs

\* strtol(s, &endptr, 10) with the test *endptr == '\0' of main.c:217-225: the
\* value when the whole string is a number, 0 otherwise.
IsWholeNumber(s) ==
    LET digits == IF CharAt(s, 1) \in {"-", "+"} THEN Tail(s) ELSE s
    IN  \A i \in 1..Len(digits) : isdigit(digits[i])
\* main.c:208-225, the value of an immediate operand "#..."
interp_parse_immediate(operand_str) ==
    IF IsWholeNumber(Tail(operand_str)) THEN atoi(Tail(operand_str)) ELSE 0

\* A JP that is also taken when the tested value is 0.
InterpJump_JPNonNegative(m, opcode, parts) ==
    LET part_count == Len(parts)
        tested == IF part_count = 2 THEN m.registers[0]
                  ELSE interp_get_register_value(m.registers, parts[2])
        target == atoi(parts[part_count])
        taken == CASE opcode = Mn.JZ -> tested = 0
                   [] opcode = Mn.JNZ -> tested # 0
                   [] opcode = SMn.JP -> tested >= 0
                   [] opcode = SMn.JN -> tested < 0
    IN  IF part_count \notin {2, 3} THEN [m EXCEPT !.next_pc = -1, !.end = "syntax"]
        ELSE IF taken THEN [m EXCEPT !.next_pc = target]
        ELSE m

\* main.c:388-436: JZ, JNZ, JP and JN test registers.A with one operand and
\* the named register with two.
InterpJump(m, opcode, parts) ==
    LET part_count == Len(parts)
        tested == IF part_count = 2 THEN m.registers[0]
                  ELSE interp_get_register_value(m.registers, parts[2])
        target == atoi(parts[part_count])
        taken == CASE opcode = Mn.JZ -> tested = 0
                   [] opcode = Mn.JNZ -> tested # 0
                   [] opcode = SMn.JP -> tested > 0
                   [] opcode = SMn.JN -> tested < 0
    IN  IF part_count \notin {2, 3} THEN [m EXCEPT !.next_pc = -1, !.end = "syntax"]
        ELSE IF taken THEN [m EXCEPT !.next_pc = target]
        ELSE m

\* main.c:333-350: scanf("%d"), then the rest of the line is read up to its
\* newline or the end of the input.
InterpInp(m, reg_name) ==
    IF Len(m.stdin) = 0
    THEN [m EXCEPT !.registers = interp_set_register_value(m.registers, reg_name, 0)]
    ELSE [m EXCEPT !.registers = interp_set_register_value(m.registers, reg_name,
                       IF Head(m.stdin).numeric THEN Head(m.stdin).value ELSE 0),
                   !.stdin = Tail(m.stdin)]

\* The instructions with a fixed number of operands, main.c:299-381 and 438-476.
InterpPlain(m, opcode, parts) ==
    LET part_count == Len(parts)
        Get(name) == interp_get_register_value(m.registers, name)
        Set(name, x) == [m EXCEPT !.registers = interp_set_register_value(m.registers, name, x)]
        Syntax == [m EXCEPT !.next_pc = -1, !.end = "syntax"]
        Needs(n, r) == IF part_count # n THEN Syntax ELSE r
    IN  CASE opcode = SMn.SET -> Needs(3, Set(parts[2], atoi(parts[3])))
          [] opcode = SMn.STA ->
               Needs(3, [m EXCEPT !.memory = interp_write_memory(m.memory, atoi(parts[3]),
                                   IF parts[2][1] = "#" THEN interp_parse_immediate(parts[2])
                                   ELSE Get(parts[2]))])
          [] opcode = SMn.LDA ->
               Needs(3, Set(parts[2], interp_read_memory(m.memory, atoi(parts[3]))))
          [] opcode = Mn.MOV -> Needs(3, Set(parts[2], Get(parts[3])))
          [] opcode = Mn.INP -> Needs(2, InterpInp(m, parts[2]))
          [] opcode = Mn.OUT -> Needs(2, [m EXCEPT !.console = Append(m.console, Get(parts[2]))])
          [] opcode = Mn.ADD ->
               Needs(3, [Set(parts[2], IntAdd(Get(parts[2]), Get(parts[3])))
                           EXCEPT !.ub = AddOverflows(Get(parts[2]), Get(parts[3]))])
          [] opcode = Mn.SUB ->
               Needs(3, [Set(parts[2], IntSub(Get(parts[2]), Get(parts[3])))
                           EXCEPT !.ub = SubOverflows(Get(parts[2]), Get(parts[3]))])
          [] opcode = Mn.INC ->
               Needs(2, [Set(parts[2], IntAdd(Get(parts[2]), 1))
                           EXCEPT !.ub = AddOverflows(Get(parts[2]), 1)])
          [] opcode = Mn.DEC ->
               Needs(2, [Set(parts[2], IntSub(Get(parts[2]), 1))
                           EXCEPT !.ub = SubOverflows(Get(parts[2]), 1)])
          [] opcode = SMn.CLRR ->
               IF part_count = 1 THEN [m EXCEPT !.registers = [r \in 0..2 |-> 0]]
               ELSE IF part_count = 2 THEN Set(parts[2], 0)
               ELSE Syntax
          [] opcode = SMn.CLRM ->
               IF part_count = 1
               THEN [m EXCEPT !.memory = [a \in 0..(INTERP_MEMORY_SIZE - 1) |-> 0]]
               ELSE IF part_count = 2
               THEN [m EXCEPT !.memory = interp_write_memory(m.memory, atoi(parts[2]), 0)]
               ELSE Syntax
          [] opcode = SMn.DMP -> Needs(1, m)
          [] opcode = Mn.HLT -> Needs(1, [m EXCEPT !.next_pc = -1, !.end = "hlt"])
          [] OTHER -> [m EXCEPT !.next_pc = -1, !.end = "unknown_instruction"]

\* main.c:262-488
interp_run_instruction(m, line, pc_) ==
    LET parts == Tokens(line, 4) IN
    IF Len(parts) = 0 THEN m
    ELSE IF StrUpper(parts[1]) = Mn.JMP
    THEN IF Len(parts) # 2 THEN [m EXCEPT !.next_pc = -1, !.end = "syntax"]
         ELSE [m EXCEPT !.next_pc = atoi(parts[2])]
    ELSE IF StrUpper(parts[1]) \in {Mn.JZ, Mn.JNZ, SMn.JP, SMn.JN}
    THEN InterpJump(m, StrUpper(parts[1]), parts)
    ELSE InterpPlain(m, StrUpper(parts[1]), parts)

\* run_program's loop condition and its break on -1, main.c:500-507.
InterpLoopState(next_pc, end) ==
    IF end = "hlt" THEN "Halted"
    ELSE IF end # "none" \/ next_pc = -1 THEN "Faulted"
    ELSE IF next_pc >= 0 /\ next_pc < program_line_count THEN "Running"
    ELSE "Finished"

\* main, main.c:595-601.  The file name and the debug answer have been read;
\* debug is off.
InterpLoad ==
    /\ sim_state = "Off"
    /\ IF source.readable
       THEN /\ program_memory' = interp_load_program(source)
            /\ program_line_count' = Len(interp_load_program(source))
            /\ sim_state' = "Loaded"
            /\ UNCHANGED sim_exit
       ELSE /\ sim_state' = "LoadFailed"
            /\ sim_exit' = 1
            /\ UNCHANGED <<program_memory, program_line_count>>
    /\ UNCHANGED <<source, symbol_table, label_count, asm_code, instruction_count,
                   out_file, exit_code, asm_pc, asm_stderr, registers, flags, memory,
                   machine_code, program_instruction_count, pc, last, stdin, console>>

\* run_program, main.c:493-497
InterpStart ==
    /\ sim_state = "Loaded"
    /\ pc' = 0
    /\ memory' = [a \in 0..(INTERP_MEMORY_SIZE - 1) |-> 0]
    /\ sim_state' = InterpLoopState(0, "none")
    /\ sim_exit' = IF InterpLoopState(0, "none") = "Running" THEN sim_exit ELSE 0
    /\ UNCHANGED <<registers, flags, machine_code, program_instruction_count, last,
                   stdin, console, asm_vars>>

\* run_program, main.c:500-517: one turn of the loop.  A signed overflow is
\* undefined: the build either wraps or traps.
InterpStep ==
    /\ sim_state = "Running"
    /\ LET m == interp_run_instruction(MachineState, program_memory[pc + 1], pc)
       IN  \/ /\ registers' = m.registers
              /\ memory' = m.memory
              /\ stdin' = m.stdin
              /\ console' = m.console
              /\ pc' = IF m.next_pc = -1 THEN pc ELSE m.next_pc
              /\ sim_state' = InterpLoopState(m.next_pc, m.end)
              /\ sim_exit' = IF InterpLoopState(m.next_pc, m.end) = "Running"
                             THEN sim_exit ELSE 0
           \/ /\ m.ub
              /\ sim_state' = "Crashed"
              /\ UNCHANGED <<registers, memory, stdin, console, pc, sim_exit>>
    /\ UNCHANGED <<flags, machine_code, program_instruction_count, last, asm_vars>>

----------------------------------------------------------------------------
(* Program files given to the text interpreter *)

Sp1(m, a) == m \o <<" ">> \o a
Sp2(m, a, b) == m \o <<" ">> \o a \o <<" ">> \o b
L_comment == <<";", " ", "c">>
L_blank == <<" ", " ">>

\* Values typed at the console for the tested registers.
JumpProbe == {-1, 0, 1}
JumpMnemonics == {Mn.JZ, Mn.JNZ, SMn.JP, SMn.JN}
\* The conditional jump under test: with one operand, with each register named,
\* with a name that is no register, in lower case, and with no operand.
JumpLines ==
    {Sp1(m, Dec(t)) : m \in JumpMnemonics, t \in {5, 6}}
    \cup {Sp2(m, r, Dec(t)) : m \in JumpMnemonics, r \in {R_A, R_B, R_C}, t \in {5, 6}}
    \cup {Line2(m, r, Dec(6)) : m \in JumpMnemonics, r \in {R_B, <<"b">>}}
    \cup {Sp1(<<"j","p">>, Dec(6)), Mn.JZ}
\* INP A / INP B / INP C / <jump> / OUT A / HLT / OUT B
JumpProgram(jump) ==
    << Sp1(Mn.INP, R_A), Sp1(Mn.INP, R_B), Sp1(Mn.INP, R_C), jump,
       Sp1(Mn.OUT, R_A), Mn.HLT, Sp1(Mn.OUT, R_B) >>
JumpInputs == { << Number(a), Number(b), Number(c) >> : a, b, c \in JumpProbe }

\* Files of comment lines, blank lines, instructions and jumps.
FileLineKinds == { L_comment, L_blank, Sp2(SMn.SET, R_A, Dec(1)),
                   Sp1(Mn.JMP, Dec(2)), Sp1(Mn.JMP, Dec(3)), Mn.HLT }
FilePrograms == UNION {[1..n -> FileLineKinds] : n \in 1..MaxProgLines}
\* ; c / SET A 1 / JMP 4 / SET A 2 / OUT A / HLT
CommentedProgram ==
    << L_comment, Sp2(SMn.SET, R_A, Dec(1)), Sp1(Mn.JMP, Dec(4)),
       Sp2(SMn.SET, R_A, Dec(2)), Sp1(Mn.OUT, R_A), Mn.HLT >>
\* A program of the other instructions, and one that increments its input.
PlainProgram ==
    << Sp2(SMn.SET, R_A, Dec(5)), Sp2(SMn.STA, R_A, Dec(3)), Sp2(SMn.STA, Imm(9), Dec(4)),
       Sp2(SMn.LDA, R_B, Dec(4)), Sp2(Mn.MOV, R_C, R_B), Sp2(Mn.ADD, R_A, R_C),
       Sp2(Mn.SUB, R_A, R_B), Sp1(Mn.DEC, R_B), Sp1(Mn.OUT, R_A), Sp1(SMn.CLRR, R_B),
       Sp1(SMn.CLRM, Dec(3)), SMn.CLRR, SMn.CLRM, SMn.DMP, Sp1(Mn.JMP, Dec(16)),
       <<"N","O","P">>, Mn.HLT >>
IncProgram == << Sp1(Mn.INP, R_A), Sp1(Mn.INC, R_A), Sp1(Mn.OUT, R_A) >>

InterpRuns ==
    {[lines |-> JumpProgram(j), stdin |-> i] : j \in JumpLines, i \in JumpInputs}
    \cup {[lines |-> p, stdin |-> << >>]
          : p \in FilePrograms \cup {CommentedProgram, PlainProgram}}
    \cup {[lines |-> IncProgram, stdin |-> i] : i \in SimInputs \cup {<<Number(INT_MAX)>>}}

InterpInit ==
    /\ \/ \E run \in InterpRuns :
            /\ source = [readable |-> TRUE, lines |-> run.lines]
            /\ stdin = run.stdin
       \/ source = [readable |-> FALSE, lines |-> <<>>] /\ stdin = << >>
    /\ out_file = AbsentFile
    /\ asm_pc = "exit"
    /\ AsmIdle
    /\ registers = [r \in 0..2 |-> 0]
    /\ flags = [ZF |-> 0, SF |-> 0]
    /\ memory = [a \in 0..(INTERP_MEMORY_SIZE - 1) |-> 0]
    /\ machine_code = <<>>
    /\ program_instruction_count = 0
    /\ pc = 0
    /\ last = NoInstruction
    /\ sim_exit = -1
    /\ console = <<>>
    /\ sim_state = "Off"

InterpNext == InterpLoad \/ InterpStart \/ InterpStep

SpecInterp == InterpInit /\ [][InterpNext]_vars

----------------------------------------------------------------------------
(* Properties of the text interpreter *)

\* The line the interpreter executes next, as tokens.
InterpFetched == Tokens(program_memory[pc + 1], 4)
InterpOpcode == IF Len(InterpFetched) = 0 THEN << >> ELSE StrUpper(InterpFetched[1])
\* The next instruction is a conditional jump with one operand, or with two
\* of which the first names a register.
JumpFetched ==
    /\ sim_state = "Running"
    /\ InterpOpcode \in JumpMnemonics
    /\ \/ Len(InterpFetched) = 2
       \/ Len(InterpFetched) = 3 /\ InterpIsReg(InterpFetched[2])
\* The value the jump tests and the condition of its mnemonic (README.md:93-119).
JumpTested ==
    IF Len(InterpFetched) = 2 THEN registers[0]
    ELSE registers[InterpRegIndex(InterpFetched[2])]
JumpCondition ==
    CASE InterpOpcode = Mn.JZ -> JumpTested = 0
      [] InterpOpcode = Mn.JNZ -> JumpTested # 0
      [] InterpOpcode = SMn.JP -> JumpTested > 0
      [] InterpOpcode = SMn.JN -> JumpTested < 0

\* C32: in the text interpreter JZ, JNZ, JP and JN with one operand test
\* register A and with two operands the named register; the jump to the given
\* address is taken iff the tested value is = 0, # 0, > 0, < 0 respectively,
\* otherwise execution continues at PC+1, and no register or memory word
\* changes.
C32_InterpJumps ==
    [][ JumpFetched =>
          /\ pc' = IF JumpCondition THEN atoi(InterpFetched[Len(InterpFetched)]) ELSE pc + 1
          /\ registers' = registers
          /\ memory' = memory ]_vars

\* JP C 6 was taken with A = 0, B = -1 and C = 1: the program printed B and
\* not A.
C32_Witness ==
    /\ source.lines = JumpProgram(Sp2(SMn.JP, R_C, Dec(6)))
    /\ sim_state = "Finished"
    /\ registers = (0 :> 0 @@ 1 :> -1 @@ 2 :> 1)
    /\ console = << -1 >>
    /\ pc = 7

\* The file line a loaded instruction came from would be its own index if
\* addresses were line numbers of the file.
JmpFetched ==
    /\ sim_state = "Running"
    /\ InterpOpcode = Mn.JMP
    /\ Len(InterpFetched) = 2
JmpTarget == atoi(InterpFetched[2])

\* C33: in the text interpreter a jump to address n transfers control to line
\* number n (counted from 0) of the program file: the instruction executed
\* after the jump is the text of that line of the file.
C33_JumpToFileLine ==
    [][ (JmpFetched /\ JmpTarget < Len(source.lines)) =>
          /\ pc' = JmpTarget
          /\ sim_state' = "Running"
          /\ program_memory[pc' + 1] = InterpTrimmed(source.lines[JmpTarget + 1]) ]_vars

\* The same for the files without comment lines and blank lines.
NoSkippedLines == \A i \in 1..Len(source.lines) : InterpIsStored(source.lines[i])
C33_JumpToInstruction ==
    [][ (JmpFetched /\ JmpTarget < Len(source.lines) /\ NoSkippedLines) =>
          /\ pc' = JmpTarget
          /\ sim_state' = "Running"
          /\ program_memory[pc' + 1] = InterpTrimmed(source.lines[JmpTarget + 1]) ]_vars

\* ; c / SET A 1 / JMP 4 / SET A 2 / OUT A / HLT ran to its end: JMP 4 went to
\* the HLT, the fifth instruction loaded, and not to OUT A, line 4 of the file.
C33_Reached ==
    /\ source.lines = CommentedProgram
    /\ sim_state = "Halted"
    /\ registers[0] = 1
    /\ console = << >>

----------------------------------------------------------------------------
(* The error sentinel of the extended assembler *)

\* Well-formed lines with every field in range: the register forms with every
\* pair of registers, and the largest immediate, address and offsets with
\* every register combination.
InRangeLines ==
    {Line2(m, r, q) : m \in AluMnemonics \cup {Mn.MOV}, r \in GoodRegs, q \in GoodRegs}
    \cup ImmediateLines(255) \cup AddressLines(255)
    \cup OffsetLines(0) \cup OffsetLines(21) \cup OffsetLines(31)

\* C34: encode_instruction returns the error sentinel 0xFFFF for no
\* well-formed instruction with its fields in range, so assemble accepts every
\* such instruction.
C34_NoCollision ==
    (SecondPassDone /\ HasTestLine /\ TestLine \in InRangeLines) =>
      /\ encode_instruction(TestLine) # ERROR_SENTINEL
      /\ Assembled

\* MOV [ESP+31], ESP was encoded without an error message to the word 0xFFFF
\* and assemble stopped at it.
C34_Reached ==
    /\ HasTestLine
    /\ TestLine = Line2(Mn.MOV, BaseOff(AsmRegNames[8], 31), AsmRegNames[8])
    /\ EncodeState(TestLine).err = "none"
    /\ encode_instruction(TestLine) = ERROR_SENTINEL
    /\ AssemblyFailed
    /\ exit_code = 1
    /\ out_file = AbsentFile

----------------------------------------------------------------------------
(* PUSH and POP taken one at a time *)

AfterPop(r) == ExecuteOn(MachineState, Word(12, r, 0, 0), pc)
\* PUSH r: ESP one less and the value r held before at the new top of stack.
PushStores(r) ==
    /\ AfterPush(r).registers[ESP] = registers[ESP] - 1
    /\ AfterPush(r).memory[registers[ESP] - 1] = registers[r]
\* POP r: r holds the word that was at the top of stack and ESP is one more.
PopLoads(r) ==
    /\ AfterPop(r).registers[r] = memory[registers[ESP]]
    /\ AfterPop(r).registers[ESP] = registers[ESP] + 1

\* C35: with the stack pointer in range, PUSH r stores at the new top of stack
\* the value r held before the instruction, and POP r leaves r equal to the
\* word that was at the old top of stack with ESP incremented by one, for
\* every register r, ESP and EBP included.
C35_PushAndPop ==
    sim_state = "Running" =>
      \A r \in 0..7 :
        /\ registers[ESP] \in 1..MEMORY_SIZE => PushStores(r)
        /\ registers[ESP] \in 0..(MEMORY_SIZE - 1) => PopLoads(r)

\* The same for the registers other than ESP.
C35_OtherRegisters ==
    sim_state = "Running" =>
      \A r \in 0..6 :
        /\ registers[ESP] \in 1..MEMORY_SIZE => PushStores(r)
        /\ registers[ESP] \in 0..(MEMORY_SIZE - 1) => PopLoads(r)

\* PUSH ESP was executed with ESP = 256: the word at the new top of stack,
\* address 255, is 255 and not 256.
C35_Reached ==
    /\ last.valid
    /\ last.word = Word(11, ESP, 0, 0)
    /\ last.pc = 3
    /\ stdin = << >>
    /\ registers[ESP] = MEMORY_SIZE - 1
    /\ memory[MEMORY_SIZE - 1] = MEMORY_SIZE - 1
    /\ console = << >>

----------------------------------------------------------------------------
(* The stack pointer as a count of pushes and pops *)

\* The opcodes whose first register field is written by set_register_value
\* (part_000:108, 125-169, 188).
DestinationOpcodes == {1, 2, 3, 4, 6, 7, 9, 10, 12, 15, 16, 17, 18, 19, 20, 22}
NamesEspDestination(word) ==
    /\ (word \div 2048) \in DestinationOpcodes
    /\ (word \div 256) % 8 = ESP
NoEspDestination ==
    \A k \in 1..Len(machine_code) : ~NamesEspDestination(machine_code[k])
\* What one executed instruction adds to the count 256 - pushes + pops.
EspDelta(word) ==
    IF (word \div 2048) \in {11, 13} THEN -1
    ELSE IF (word \div 2048) \in {12, 14} THEN 1
    ELSE 0

\* C36: in an execution whose program names ESP as a destination nowhere, the
\* run starts with ESP = 256, every PUSH and CALL makes ESP exactly one less,
\* every POP and RET exactly one more, and every other instruction leaves ESP
\* as it was, inside and outside the range 0..256; so after every step
\* ESP = 256 - (PUSH and CALL executed) + (POP and RET executed).
C36_StackPointer ==
    [][ /\ sim_state = "Loaded" => registers'[ESP] = STACK_TOP + 1
        /\ (sim_state = "Running" /\ NoEspDestination)
             => registers'[ESP] = registers[ESP] + EspDelta(Fetched) ]_vars

\* The same step by step in every execution: an instruction that completes
\* and does not name ESP as its destination changes ESP by its delta.
C36_EveryStep ==
    [][ (sim_state = "Running" /\ Completed /\ ~NamesEspDestination(Fetched)
           /\ registers[ESP] \in (INT_MIN + 1)..(INT_MAX - 1))
          => registers'[ESP] = registers[ESP] + EspDelta(Fetched) ]_vars

\* The loop of 258 pushes has ended with ESP = -2, and nothing wrote ESP.
C36_Witness ==
    /\ sim_state = "Halted"
    /\ NoEspDestination
    /\ machine_code \in UnbalancedPrograms
    /\ registers[ESP] = 0 - 2
    /\ console = << 0 - 2 >>

----------------------------------------------------------------------------
(* The values execute_instruction returns *)

\* The fetched word and, for each of the 32 opcodes, words with the first
\* register EAX or ESP and the low byte 0, 32 (second register EBX) or 255.
OpcodeProbes ==
    { Word(op, r, 0, v) : op \in 0..31, r \in {0, ESP}, v \in {0, 32, 255} }
Returned(word) == execute_instruction(word, pc)
IsHlt(word) == word \div 2048 = 0
IsDivByZero(word) ==
    /\ word \div 2048 = 2
    /\ registers[(word \div 32) % 8] = 0
IsRetToMinusOne(word) ==
    /\ word \div 2048 = 14
    /\ read_memory(memory, registers[ESP]) = 0 - 1

\* C37: no word reaches the unknown-opcode fault, and for every word and every
\* state execute_instruction returns -1 only for HLT or for DIV with a zero
\* divisor.
C37_HaltValue ==
    sim_state = "Running" =>
      \A word \in OpcodeProbes \cup {Fetched} :
        /\ Returned(word).end # "unknown_opcode"
        /\ Returned(word).next_pc = 0 - 1 => (IsHlt(word) \/ IsDivByZero(word))

\* No word reaches the fault, and -1 is returned only for HLT, for DIV with a
\* zero divisor and for a RET that finds -1 at the top of the stack.
C37_AllDefined ==
    sim_state = "Running" =>
      \A word \in OpcodeProbes \cup {Fetched} :
        /\ Returned(word).end # "unknown_opcode"
        /\ Returned(word).next_pc = 0 - 1
             => (IsHlt(word) \/ IsDivByZero(word) \/ IsRetToMinusOne(word))

\* RET found -1 at the top of the stack and returned it: the run is over
\* with OUT EAX and HLT never executed.
C37_Reached ==
    /\ machine_code = ReturnProgram
    /\ last.valid
    /\ last.word = Word(14, 0, 0, 0)
    /\ pc = 0 - 1
    /\ sim_state = "Finished"
    /\ console = << >>

----------------------------------------------------------------------------
(* RET with an empty stack *)

\* C38: a RET executed with ESP = 256 neither halts nor faults: it reads the
\* out-of-range address 256 as 0, leaves ESP = 257 and everything else as it
\* was, and the run goes on at instruction 0.
C38_RetOnEmptyStack ==
    [][ (Executes({14}) /\ registers[ESP] = MEMORY_SIZE) =>
          /\ read_memory(memory, registers[ESP]) = 0
          /\ registers' = [registers EXCEPT ![ESP] = MEMORY_SIZE + 1]
          /\ memory' = memory
          /\ flags' = flags
          /\ console' = console
          /\ pc' = 0
          /\ sim_state' = "Running"
          /\ machine_code'[pc' + 1] = machine_code[1] ]_vars

\* The RET at address 3 was executed with ESP = 256 and the first instruction
\* of the program is fetched again.
C38_Witness ==
    /\ last.valid
    /\ last.word = Word(14, 0, 0, 0)
    /\ last.pc = 3
    /\ registers[ESP] = MEMORY_SIZE + 1
    /\ pc = 0
    /\ sim_state = "Running"
    /\ Fetched = Word(4, ESP, 0, 0)

----------------------------------------------------------------------------
(* INP and the end of the console input *)

InpFetched == sim_state = "Running" /\ Fetched \div 2048 = 4
\* The value INP gives the register: the integer of the line, 0 for a line
\* that holds none and for an input that has ended.
InpValue ==
    IF Len(stdin) > 0 /\ Head(stdin).numeric THEN Head(stdin).value ELSE 0
\* The instruction returned, and the run goes on at the next address.
InpReturns ==
    /\ sim_state' \in {"Running", "Finished"}
    /\ pc' = pc + 1

\* C39: every INP of the extended simulator completes, whatever the console
\* input holds, the end of input included: the register is set to the parsed
\* value, or to 0 when no integer can be read, and execution continues at
\* PC + 1.
C39_InpCompletes ==
    [][ InpFetched =>
          /\ InpReturns
          /\ registers' = set_register_value(registers, FetchedReg1, InpValue) ]_vars

\* The same for an INP that finds a line ended by a newline.
C39_InpOfLine ==
    [][ (InpFetched /\ Len(stdin) > 0 /\ Head(stdin).nl) =>
          /\ InpReturns
          /\ registers' = set_register_value(registers, FetchedReg1, InpValue) ]_vars

\* The INP of the simple simulator returns as well.
C39_SimpleInpCompletes == [][ InpFetched => InpReturns ]_vars

\* INP EAX / OUT EAX / INP EBX was started with no console input: the
\* simulator is stuck in the first INP.
C39_Reached ==
    /\ sim_state = "Hung"
    /\ machine_code = << Word(4, 0, 0, 0), Word(5, 0, 0, 0), Word(4, 1, 0, 0) >>
    /\ pc = 0
    /\ last.valid /\ last.pc = 0
    /\ stdin = << >>
    /\ console = << >>

----------------------------------------------------------------------------
(* The frame of the data-movement, arithmetic and logical instructions *)

\* MUL, DIV, XOR, the six MOV forms, INC, DEC, ADD, SUB, the immediate ADD and
\* SUB, NOT.
DataOpcodes == {1, 2, 3, 6, 7, 8, 9, 10, 15, 16, 17, 18, 19, 20, 22, 31}
StoreOpcodes == {8, 31}
DataFetched ==
    /\ Executes(DataOpcodes)
    /\ Fetched \div 2048 = 2 => registers[FetchedReg2] # 0
ChangedWords == { a \in 0..(MEMORY_SIZE - 1) : memory'[a] # memory[a] }
FrameKept ==
    /\ IF (Fetched \div 2048) \in StoreOpcodes
       THEN registers' = registers /\ Cardinality(ChangedWords) <= 1
       ELSE /\ \A r \in (0..7) \ {FetchedReg1} : registers'[r] = registers[r]
            /\ memory' = memory
    /\ flags' = flags
    /\ machine_code' = machine_code
    /\ program_instruction_count' = program_instruction_count
    /\ pc' = pc + 1

\* C40: a step that executes a MOV of any of the six forms, ADD, SUB, MUL, DIV
\* with a non-zero divisor, XOR, NOT, INC, DEC or an immediate ADD or SUB
\* changes at most its destination register or one memory word, leaves every
\* other register and memory word, both flags and the loaded program as they
\* were, and sets PC to PC + 1.
C40_DataFrame == [][ DataFetched => FrameKept ]_vars

\* The same for the steps whose instruction runs to its end.
C40_CompletedFrame == [][ (DataFetched /\ Completed) => FrameKept ]_vars

\* MUL EAX, EBX with the largest int in EAX and 2 in EBX ended the run
\* abnormally at the MUL: PC is still 2.
C40_Reached ==
    /\ sim_state = "Crashed"
    /\ last.valid /\ last.word = Word(1, 0, 1, 0)
    /\ registers[0] = INT_MAX
    /\ registers[1] = 2
    /\ pc = 2

====
